---------------------------- MODULE Spec2Model ----------------------------
(***************************************************************************)
(* Gemini EXIF Data Embedder: the metadata codec (embedMetadataInImage,    *)
(* extractMetadataFromImage), the reducer of the application state         *)
(* (appReducer) and the asynchronous handlers of App (handleGenerate,      *)
(* handleGenerateAllSuggestions, handleRefine, handleFileSelect).          *)
(*                                                                         *)
(* Strings are sequences of one-character strings, so that JSON.stringify, *)
(* JSON.parse and string concatenation are computed character by           *)
(* character.  A nullable or optional JavaScript value is a sequence of    *)
(* length 0 (null / undefined) or 1 (the value).                           *)
(***************************************************************************)
EXTENDS Integers, Sequences, FiniteSets, TLC

(***************************************************************************)
(* Nullable values                                                         *)
(***************************************************************************)
Null ==
    <<>>

Some(v) ==
    <<v>>

IsNull(o) ==
    o = <<>>

Val(o) ==
    o[1]

(***************************************************************************)
(* String constants of the program                                         *)
(***************************************************************************)
FAST_EDIT_MODEL ==
    <<"g", "e", "m", "i", "n", "i", "-", "2", ".", "5", "-", "f", "l", "a", "s", "h", "-", "i", "m", "a", "g", "e">>

HIGH_QUALITY_MODEL ==
    <<"i", "m", "a", "g", "e", "n", "-", "4", ".", "0", "-", "g", "e", "n", "e", "r", "a", "t", "e", "-", "0", "0", "1">>

K_model ==
    <<"m", "o", "d", "e", "l">>

K_prompt ==
    <<"p", "r", "o", "m", "p", "t">>

K_originalPrompt ==
    <<"o", "r", "i", "g", "i", "n", "a", "l", "P", "r", "o", "m", "p", "t">>

K_aspectRatio ==
    <<"a", "s", "p", "e", "c", "t", "R", "a", "t", "i", "o">>

K_promptMode ==
    <<"p", "r", "o", "m", "p", "t", "M", "o", "d", "e">>

K_filenameSlug ==
    <<"f", "i", "l", "e", "n", "a", "m", "e", "S", "l", "u", "g">>

AR_1_1 ==
    <<"1", ":", "1">>

AR_16_9 ==
    <<"1", "6", ":", "9">>

PM_text ==
    <<"t", "e", "x", "t">>

PM_json ==
    <<"j", "s", "o", "n">>

NOTE_REFINEMENT ==
    <<"\n", "\n", "-", "-", "-", "\n", "\n", "R", "e", "f", "i", "n", "e", "m", "e", "n", "t", ":", " ">>

NOTE_REFINED_FROM_IMAGEN ==
    <<"\n", "\n", "-", "-", "-", "\n", "\n", "R", "e", "f", "i", "n", "e", "d", " ", "(", "f", "r", "o", "m", " ", "I", "m", "a", "g", "e", "n", ")", " ", "w", "i", "t", "h", " ", "N", "a", "n", "o", " ", "B", "a", "n", "a", "n", "a", ":", " ">>

LIT_true ==
    <<"t", "r", "u", "e">>

LIT_false ==
    <<"f", "a", "l", "s", "e">>

LIT_null ==
    <<"n", "u", "l", "l">>

\* Using ImageDescription (270)
EXIF_PROMPT_TAG ==
    270

(***************************************************************************)
(* Characters.  WIDE stands for one UTF-16 code unit above U+00FF (an      *)
(* arrow, a curly quote, a CJK character): JSON.stringify leaves it as it  *)
(* is, and the binary string that carries the EXIF block cannot hold it.   *)
(***************************************************************************)
WIDE ==
    "U+2192"

Whitespace ==
    {" ", "\n", "\t", "\r"}

Digits ==
    {"0", "1", "2", "3", "4", "5", "6", "7", "8", "9"}

\* Characters JSON.parse rejects when they stand raw inside a string literal.
ControlChars ==
    {"\n", "\t", "\r", "\f"}

HasWide(s) ==
    \E i \in 1..Len(s) : s[i] = WIDE

\* String.prototype.trim
RECURSIVE TrimLeft(_)
TrimLeft(s) ==
    IF s # <<>> /\ Head(s) \in Whitespace THEN TrimLeft(Tail(s)) ELSE s

RECURSIVE TrimRight(_)
TrimRight(s) ==
    IF s # <<>> /\ s[Len(s)] \in Whitespace
    THEN TrimRight(SubSeq(s, 1, Len(s) - 1))
    ELSE s

Trim(s) ==
    TrimRight(TrimLeft(s))

IsPrefix(p, s) ==
    Len(p) <= Len(s) /\ SubSeq(s, 1, Len(p)) = p

(***************************************************************************)
(* JSON.stringify of a string and of a GenerationMetadata object           *)
(***************************************************************************)
EscapeChar(c) ==
    CASE c = "\"" -> <<"\\", "\"">>
      [] c = "\\" -> <<"\\", "\\">>
      [] c = "\n" -> <<"\\", "n">>
      [] c = "\t" -> <<"\\", "t">>
      [] c = "\r" -> <<"\\", "r">>
      [] c = "\f" -> <<"\\", "f">>
      [] OTHER -> <<c>>

\* The escapes of s[lo..hi], one after the other.
RECURSIVE EscapeRange(_, _, _)
EscapeRange(s, lo, hi) ==
    IF lo > hi THEN <<>>
    ELSE IF lo = hi THEN EscapeChar(s[lo])
    ELSE LET mid == (lo + hi) \div 2
         IN  EscapeRange(s, lo, mid) \o EscapeRange(s, mid + 1, hi)

EscapeChars(s) ==
    EscapeRange(s, 1, Len(s))

\* JSON.stringify(s) for a string s
QuoteString(s) ==
    <<"\"">> \o EscapeChars(s) \o <<"\"">>

\* One member "key":"value" of the object, nothing for an undefined value.
Member(key, opt) ==
    IF IsNull(opt) THEN <<>>
    ELSE << QuoteString(key) \o <<":">> \o QuoteString(Val(opt)) >>

RECURSIVE JoinComma(_)
JoinComma(ms) ==
    IF ms = <<>> THEN <<>>
    ELSE IF Len(ms) = 1 THEN ms[1]
    ELSE ms[1] \o <<",">> \o JoinComma(Tail(ms))

\* JSON.stringify(metadata): the keys in the order the object literal of
\* handleGenerate gives them, a key whose value is undefined left out.
JSON_stringify(metadata) ==
    <<"{">> \o
    JoinComma(  Member(K_model, Some(metadata.model))
             \o Member(K_prompt, Some(metadata.prompt))
             \o Member(K_originalPrompt, metadata.originalPrompt)
             \o Member(K_aspectRatio, metadata.aspectRatio)
             \o Member(K_promptMode, metadata.promptMode)
             \o Member(K_filenameSlug, metadata.filenameSlug))
    \o <<"}">>

(***************************************************************************)
(* JSON.parse.  A parsed value is <<"str", chars>>, <<"num", lexeme>>,      *)
(* <<"lit", name>>, <<"arr", items>> or <<"obj", members>> with members a  *)
(* sequence of <<key, value>>.  A parse step answers [ok, v, i]: whether   *)
(* it succeeded, the value, and the index after it.                        *)
(***************************************************************************)
ParseFail ==
    [ok |-> FALSE, v |-> <<>>, i |-> 0]

ParseOk(v, i) ==
    [ok |-> TRUE, v |-> v, i |-> i]

RECURSIVE SkipWs(_, _)
SkipWs(s, i) ==
    IF i <= Len(s) /\ s[i] \in Whitespace THEN SkipWs(s, i + 1) ELSE i

RECURSIVE SkipDigits(_, _)
SkipDigits(s, i) ==
    IF i <= Len(s) /\ s[i] \in Digits THEN SkipDigits(s, i + 1) ELSE i

HexDigits ==
    Digits \cup {"a", "b", "c", "d", "e", "f", "A", "B", "C", "D", "E", "F"}

\* The character an escape \c stands for; a \uXXXX escape is one code unit,
\* which one is not tracked.
Unescape(c) ==
    CASE c = "n" -> "\n"
      [] c = "t" -> "\t"
      [] c = "r" -> "\r"
      [] c = "f" -> "\f"
      [] c = "b" -> "U+0008"
      [] OTHER -> c

\* The rest of a string literal whose opening quote precedes index i.
RECURSIVE ParseStringBody(_, _, _)
ParseStringBody(s, i, acc) ==
    IF i > Len(s) THEN ParseFail
    ELSE IF s[i] = "\"" THEN ParseOk(<<"str", acc>>, i + 1)
    ELSE IF s[i] \in ControlChars THEN ParseFail
    ELSE IF s[i] # "\\" THEN ParseStringBody(s, i + 1, Append(acc, s[i]))
    ELSE IF i + 1 > Len(s) THEN ParseFail
    ELSE IF s[i + 1] \in {"\"", "\\", "/", "b", "f", "n", "r", "t"}
         THEN ParseStringBody(s, i + 2, Append(acc, Unescape(s[i + 1])))
    ELSE IF /\ s[i + 1] = "u"
            /\ i + 5 <= Len(s)
            /\ \A k \in (i + 2)..(i + 5) : s[k] \in HexDigits
         THEN ParseStringBody(s, i + 6, Append(acc, "U+XXXX"))
    ELSE ParseFail

\* -? (0 | [1-9][0-9]*) (. [0-9]+)? ([eE] [+-]? [0-9]+)?
ParseNumber(s, i) ==
    LET a == IF i <= Len(s) /\ s[i] = "-" THEN i + 1 ELSE i
        b == IF a <= Len(s) /\ s[a] = "0" THEN a + 1 ELSE SkipDigits(s, a)
        hasFrac == b <= Len(s) /\ s[b] = "."
        c == IF hasFrac THEN SkipDigits(s, b + 1) ELSE b
        hasExp == c <= Len(s) /\ s[c] \in {"e", "E"}
        d == IF hasExp /\ c + 1 <= Len(s) /\ s[c + 1] \in {"+", "-"}
             THEN c + 2 ELSE c + 1
        e == IF hasExp THEN SkipDigits(s, d) ELSE c
    IN  IF b = a \/ (hasFrac /\ c = b + 1) \/ (hasExp /\ e = d)
        THEN ParseFail
        ELSE ParseOk(<<"num", SubSeq(s, i, c - 1)>>, e)

ParseLiteral(s, i, word, name) ==
    IF i + Len(word) - 1 <= Len(s) /\ SubSeq(s, i, i + Len(word) - 1) = word
    THEN ParseOk(<<"lit", name>>, i + Len(word))
    ELSE ParseFail

RECURSIVE ParseValue(_, _)
RECURSIVE ParseElements(_, _, _)
RECURSIVE ParseMembers(_, _, _)

\* After the element r of an array, with j the index of what follows it.
ElementsNext(s, acc, r, j) ==
    IF ~r.ok \/ j > Len(s) THEN ParseFail
    ELSE IF s[j] = "," THEN ParseElements(s, j + 1, Append(acc, r.v))
    ELSE IF s[j] = "]" THEN ParseOk(<<"arr", Append(acc, r.v)>>, j + 1)
    ELSE ParseFail

ElementsAfter(s, acc, r) ==
    ElementsNext(s, acc, r, SkipWs(s, r.i))

\* The elements of an array after "[" or ",": value (, value)* ]
ParseElements(s, i, acc) ==
    ElementsAfter(s, acc, ParseValue(s, i))

\* After the member key : r of an object, with j the index of what follows.
MembersNext(s, acc, key, r, j) ==
    IF ~r.ok \/ j > Len(s) THEN ParseFail
    ELSE IF s[j] = ","
         THEN ParseMembers(s, j + 1, Append(acc, <<key.v[2], r.v>>))
    ELSE IF s[j] = "}"
         THEN ParseOk(<<"obj", Append(acc, <<key.v[2], r.v>>)>>, j + 1)
    ELSE ParseFail

MembersAfter(s, acc, key, r) ==
    MembersNext(s, acc, key, r, SkipWs(s, r.i))

\* The value of a member whose key has been read, c the index of its colon.
MemberValue(s, acc, key, c) ==
    MembersAfter(s, acc, key,
                 IF key.ok /\ c <= Len(s) /\ s[c] = ":"
                 THEN ParseValue(s, c + 1) ELSE ParseFail)

MemberKey(s, acc, key) ==
    MemberValue(s, acc, key, SkipWs(s, key.i))

MemberStart(s, acc, k0) ==
    MemberKey(s, acc, IF k0 <= Len(s) /\ s[k0] = "\""
                      THEN ParseStringBody(s, k0 + 1, <<>>) ELSE ParseFail)

\* The members of an object after "{" or ",": "key" : value (, ...)* }
ParseMembers(s, i, acc) ==
    MemberStart(s, acc, SkipWs(s, i))

\* A value that starts at index i, white space skipped; j is the index of
\* what follows the opening bracket of an object or array.
ValueAt(s, i, j) ==
    IF i > Len(s) THEN ParseFail
    ELSE IF s[i] = "\"" THEN ParseStringBody(s, i + 1, <<>>)
    ELSE IF s[i] = "{" THEN
        IF j <= Len(s) /\ s[j] = "}" THEN ParseOk(<<"obj", <<>>>>, j + 1)
        ELSE ParseMembers(s, i + 1, <<>>)
    ELSE IF s[i] = "[" THEN
        IF j <= Len(s) /\ s[j] = "]" THEN ParseOk(<<"arr", <<>>>>, j + 1)
        ELSE ParseElements(s, i + 1, <<>>)
    ELSE IF s[i] = "t" THEN ParseLiteral(s, i, LIT_true, "true")
    ELSE IF s[i] = "f" THEN ParseLiteral(s, i, LIT_false, "false")
    ELSE IF s[i] = "n" THEN ParseLiteral(s, i, LIT_null, "null")
    ELSE IF s[i] = "-" \/ s[i] \in Digits THEN ParseNumber(s, i)
    ELSE ParseFail

ValueFrom(s, i) ==
    ValueAt(s, i, SkipWs(s, i + 1))

ParseValue(s, i0) ==
    ValueFrom(s, SkipWs(s, i0))

\* JSON.parse(text): ok = FALSE stands for the SyntaxError it throws.
JSON_parse(text) ==
    LET r == ParseValue(text, 1)
    IN  IF r.ok /\ SkipWs(text, r.i) = Len(text) + 1
        THEN [ok |-> TRUE, v |-> r.v]
        ELSE [ok |-> FALSE, v |-> <<>>]

(***************************************************************************)
(* Property access and truthiness of a parsed value                        *)
(***************************************************************************)
\* value.key of an object: the last member with that key, else undefined.
RECURSIVE GetMember(_, _)
GetMember(members, key) ==
    IF members = <<>> THEN Null
    ELSE LET last == members[Len(members)]
         IN  IF last[1] = key THEN Some(last[2])
             ELSE GetMember(SubSeq(members, 1, Len(members) - 1), key)

\* value.key for the keys of GenerationMetadata: undefined on anything that
\* is no object (reading a property of null throws, see extraction).
GetProp(value, key) ==
    IF value[1] = "obj" THEN GetMember(value[2], key) ELSE Null

NumIsZero(lexeme) ==
    \A k \in 1..Len(lexeme) : lexeme[k] \notin (Digits \ {"0"})

\* ToBoolean of an optional parsed value
Truthy(opt) ==
    IF IsNull(opt) THEN FALSE
    ELSE LET value == Val(opt)
         IN  CASE value[1] = "str" -> value[2] # <<>>
               [] value[1] = "num" -> ~NumIsZero(value[2])
               [] value[1] = "lit" -> value[2] = "true"
               [] OTHER -> TRUE

(***************************************************************************)
(* Images.  A data URL is [mime, px, seg, tag]: its media type, its        *)
(* pixels, its EXIF segment ("none", "corrupt" or "exif") and the          *)
(* ImageDescription tag of the 0th IFD (Null when the tag is absent).      *)
(* A base64 image handed to embedMetadataInImage is [px, decodable].       *)
(***************************************************************************)
PlainJpeg(px) ==
    [mime |-> "image/jpeg", px |-> px, seg |-> "none", tag |-> Null]

JpegWithTag(px, text) ==
    [mime |-> "image/jpeg", px |-> px, seg |-> "exif", tag |-> Some(text)]

\* piexif.dump / piexif.insert raise when the binary string cannot be
\* base64-encoded: a code unit above U+00FF in the tag text.
PiexifInsertRaises(text) ==
    HasWide(text)

\* piexif.load raises on anything but a JPEG data URL and on a corrupt segment.
PiexifLoadRaises(dataUrl) ==
    dataUrl.mime # "image/jpeg" \/ dataUrl.seg = "corrupt"

Rejected(message) ==
    [settled |-> "rejected", message |-> message, url |-> Null]

Resolved(url) ==
    [settled |-> "resolved", message |-> "", url |-> Some(url)]

\* A variant of embedMetadataInImage that rejects when the EXIF block
\* cannot be built or inserted.
embedRejectingOnExifFailure(base64Image, metadata, ctxOk) ==
    IF ~base64Image.decodable
    THEN Rejected("Failed to load image for metadata embedding.")
    ELSE IF ~ctxOk THEN Rejected("Could not get canvas context")
    ELSE IF PiexifInsertRaises(JSON_stringify(metadata))
    THEN Rejected("Failed to embed EXIF data")
    ELSE Resolved(JpegWithTag(base64Image.px, JSON_stringify(metadata)))

\* embedMetadataInImage(base64Image, mimeType, metadata); ctxOk says whether
\* canvas.getContext('2d') gave a context.
embedMetadataInImage(base64Image, metadata, ctxOk) ==
    IF ~base64Image.decodable
    THEN Rejected("Failed to load image for metadata embedding.")
    ELSE IF ~ctxOk THEN Rejected("Could not get canvas context")
    ELSE LET jpegDataUrl == PlainJpeg(base64Image.px)
             text == JSON_stringify(metadata)
         IN  IF PiexifInsertRaises(text)
             THEN Resolved(jpegDataUrl)
             ELSE Resolved(JpegWithTag(base64Image.px, text))

\* The value of a metadata field read from a parsed object.  A value that is
\* no string is kept as NonString.
NonString ==
    <<"#non-string">>

FieldText(opt) ==
    IF IsNull(opt) THEN Null
    ELSE IF Val(opt)[1] = "str" THEN Some(Val(opt)[2])
    ELSE Some(NonString)

MetadataOf(value) ==
    [model          |-> Val(FieldText(GetProp(value, K_model))),
     prompt         |-> Val(FieldText(GetProp(value, K_prompt))),
     originalPrompt |-> FieldText(GetProp(value, K_originalPrompt)),
     aspectRatio    |-> FieldText(GetProp(value, K_aspectRatio)),
     promptMode     |-> FieldText(GetProp(value, K_promptMode)),
     filenameSlug   |-> FieldText(GetProp(value, K_filenameSlug))]

Structured(metadata) ==
    [kind |-> "Structured", metadata |-> Some(metadata), text |-> Null]

LegacyString(text) ==
    [kind |-> "LegacyString", metadata |-> Null, text |-> Some(text)]

NotFound ==
    [kind |-> "NotFound", metadata |-> Null, text |-> Null]

\* Whether a parsed value has a truthy model and a truthy prompt.
HasModelAndPrompt(value) ==
    Truthy(GetProp(value, K_model)) /\ Truthy(GetProp(value, K_prompt))

\* A variant of TagOutcome that drops a tag text JSON.parse rejects.
TagOutcomeDroppingUnparsed(metadataString) ==
    IF IsNull(metadataString) \/ Val(metadataString) = <<>> THEN NotFound
    ELSE IF ~JSON_parse(Val(metadataString)).ok THEN NotFound
    ELSE IF HasModelAndPrompt(JSON_parse(Val(metadataString)).v)
    THEN Structured(MetadataOf(JSON_parse(Val(metadataString)).v))
    ELSE NotFound

\* What extractMetadataFromImage makes of exifObj['0th']?.[EXIF_PROMPT_TAG]:
\* the inner try block.  JSON.parse raising, and reading .model of null,
\* end in the inner catch, which returns the string.
TagOutcome(metadataString) ==
    IF IsNull(metadataString) \/ Val(metadataString) = <<>> THEN NotFound
    ELSE LET parsed == JSON_parse(Val(metadataString))
         IN  IF ~parsed.ok THEN LegacyString(Val(metadataString))
             ELSE IF parsed.v[1] = "lit" /\ parsed.v[2] = "null"
             THEN LegacyString(Val(metadataString))
             ELSE IF HasModelAndPrompt(parsed.v)
             THEN Structured(MetadataOf(parsed.v))
             ELSE NotFound

\* An exception that leaves the function.
Thrown ==
    [kind |-> "thrown", metadata |-> Null, text |-> Null]

\* A variant of extractMetadataFromImage without its outer catch.
extractWithoutOuterCatch(imageDataUrl) ==
    IF PiexifLoadRaises(imageDataUrl) THEN Thrown
    ELSE TagOutcome(imageDataUrl.tag)

\* extractMetadataFromImage(imageDataUrl): an object, a string or null.
extractMetadataFromImage(imageDataUrl) ==
    IF PiexifLoadRaises(imageDataUrl) THEN NotFound
    ELSE TagOutcome(imageDataUrl.tag)

(***************************************************************************)
(* The application state and its reducer (state/AppContext.tsx)            *)
(***************************************************************************)
initialState ==
    [view                       |-> "generate",
     mobileView                 |-> "form",
     isLoading                  |-> FALSE,
     loadingMessage             |-> Null,
     isNightMode                |-> TRUE,
     isRefining                 |-> FALSE,
     isDescribing               |-> FALSE,
     isFetchingExamples         |-> TRUE,
     error                      |-> Null,
     prompt                     |-> <<"a">>,
     model                      |-> FAST_EDIT_MODEL,
     promptMode                 |-> PM_text,
     aspectRatio                |-> AR_1_1,
     numberOfImages             |-> 1,
     referenceImages            |-> <<>>,
     useWebSearch               |-> FALSE,
     examplePrompts             |-> <<>>,
     generatedImages            |-> Null,
     generatedVideoUrl          |-> Null,
     selectedImageIndex         |-> 0,
     refinementPrompt           |-> <<>>,
     refinementCreativeStrength |-> "MEDIUM",
     refinementStyle            |-> <<>>,
     generationHistory          |-> <<>>,
     activeHistoryId            |-> Null,
     activeBatchHistoryIds      |-> Null,
     extractedMetadata          |-> Null,
     imagePreview               |-> Null,
     extractionMessage          |-> Null,
     isPromptValid              |-> FALSE,
     isEditingPrompt            |-> FALSE]

\* A message as the error slot holds it: its lines.
Msg(line) ==
    Some(<<line>>)

SET_VIEW(s, payload) ==
    [s EXCEPT !.view = payload, !.mobileView = "form", !.error = Null,
              !.generatedImages = Null, !.generatedVideoUrl = Null]

SET_LOADING(s, payload) ==
    [s EXCEPT !.isLoading = payload]

SET_REFINING(s, payload) ==
    [s EXCEPT !.isRefining = payload]

SET_DESCRIBING(s, payload) ==
    [s EXCEPT !.isDescribing = payload]

SET_ERROR(s, payload) ==
    [s EXCEPT !.error = payload]

SET_FORM_FIELD(s, field, value) ==
    [s EXCEPT ![field] = value]

\* A variant of START_GENERATION that keeps the refinement text.
START_GENERATION_KeepingRefinementText(s) ==
    [s EXCEPT !.isLoading = TRUE, !.error = Null, !.generatedImages = Null,
              !.generatedVideoUrl = Null,
              !.activeBatchHistoryIds = Null, !.loadingMessage = Null]

START_GENERATION(s) ==
    [s EXCEPT !.isLoading = TRUE, !.error = Null, !.generatedImages = Null,
              !.generatedVideoUrl = Null, !.refinementPrompt = <<>>,
              !.activeBatchHistoryIds = Null, !.loadingMessage = Null]

\* A variant of GENERATION_SUCCESS that puts the new item behind the others.
GENERATION_SUCCESS_Appending(s, images, historyItem) ==
    [s EXCEPT !.isLoading = FALSE,
              !.generatedImages = Some(images),
              !.generationHistory = Append(s.generationHistory, historyItem),
              !.activeHistoryId = Some(historyItem.id),
              !.referenceImages = <<>>,
              !.useWebSearch = FALSE,
              !.selectedImageIndex = 0,
              !.mobileView = "results"]

GENERATION_SUCCESS(s, images, historyItem) ==
    [s EXCEPT !.isLoading = FALSE,
              !.generatedImages = Some(images),
              !.generationHistory = <<historyItem>> \o s.generationHistory,
              !.activeHistoryId = Some(historyItem.id),
              !.referenceImages = <<>>,
              !.useWebSearch = FALSE,
              !.selectedImageIndex = 0,
              !.mobileView = "results"]

BATCH_GENERATION_SUCCESS(s, images, historyItems) ==
    [s EXCEPT !.isLoading = FALSE,
              !.generatedImages = Some(images),
              !.generationHistory = historyItems \o s.generationHistory,
              !.activeBatchHistoryIds =
                  Some([k \in 1..Len(historyItems) |-> historyItems[k].id]),
              !.activeHistoryId = Null,
              !.referenceImages = <<>>,
              !.useWebSearch = FALSE,
              !.selectedImageIndex = 0,
              !.mobileView = "results"]

\* array[index] of JavaScript (index from 0): undefined out of range.
At(array, index) ==
    IF index + 1 \in 1..Len(array) THEN Some(array[index + 1]) ELSE Null

\* The id a refinement addresses: activeBatchHistoryIds[selectedImageIndex]
\* in batch mode, activeHistoryId otherwise.
ActiveId(s) ==
    IF ~IsNull(s.activeBatchHistoryIds)
    THEN At(Val(s.activeBatchHistoryIds), s.selectedImageIndex)
    ELSE s.activeHistoryId

REFINEMENT_SUCCESS(s, newImage, newHistoryItem) ==
    LET historyIdToUpdate == ActiveId(s)
    IN  [s EXCEPT
          !.isRefining = FALSE,
          !.generatedImages =
              IF ~IsNull(s.generatedImages)
              THEN Some([k \in 1..Len(Val(s.generatedImages)) |->
                          IF k - 1 = s.selectedImageIndex THEN newImage
                          ELSE Val(s.generatedImages)[k]])
              ELSE Some(<<newImage>>),
          !.generationHistory =
              [k \in 1..Len(s.generationHistory) |->
                  IF Some(s.generationHistory[k].id) = historyIdToUpdate
                  THEN [newHistoryItem EXCEPT !.id = Val(historyIdToUpdate)]
                  ELSE s.generationHistory[k]],
          !.refinementPrompt = <<>>,
          !.refinementStyle = <<>>,
          !.refinementCreativeStrength = "MEDIUM"]

SET_SELECTED_IMAGE_INDEX(s, payload) ==
    [s EXCEPT !.selectedImageIndex = payload]

\* x || fallback for an optional string
OrElse(opt, fallback) ==
    IF IsNull(opt) \/ Val(opt) = <<>> THEN fallback ELSE Val(opt)

\* A variant of SET_HISTORY_ITEM that keeps the promptMode of the form.
SET_HISTORY_ITEM_KeepingMode(s, payload) ==
    [s EXCEPT !.view = "generate",
              !.model = payload.metadata.model,
              !.aspectRatio = OrElse(payload.metadata.aspectRatio, AR_1_1),
              !.prompt = payload.metadata.prompt,
              !.generatedImages = Some(payload.images),
              !.generatedVideoUrl = Null,
              !.activeHistoryId = Some(payload.id),
              !.activeBatchHistoryIds = Null,
              !.numberOfImages = Len(payload.images),
              !.referenceImages = <<>>,
              !.error = Null,
              !.refinementPrompt = <<>>,
              !.mobileView = "results"]

SET_HISTORY_ITEM(s, payload) ==
    [s EXCEPT !.view = "generate",
              !.model = payload.metadata.model,
              !.aspectRatio = OrElse(payload.metadata.aspectRatio, AR_1_1),
              !.prompt = payload.metadata.prompt,
              !.promptMode = OrElse(payload.metadata.promptMode, PM_text),
              !.generatedImages = Some(payload.images),
              !.generatedVideoUrl = Null,
              !.activeHistoryId = Some(payload.id),
              !.activeBatchHistoryIds = Null,
              !.numberOfImages = Len(payload.images),
              !.referenceImages = <<>>,
              !.error = Null,
              !.refinementPrompt = <<>>,
              !.mobileView = "results"]

START_EXTRACTION(s) ==
    [s EXCEPT !.imagePreview = Null, !.extractedMetadata = Null,
              !.isPromptValid = FALSE, !.isEditingPrompt = FALSE,
              !.extractionMessage = Some("Processing image...")]

EXTRACTION_RESULT(s, dataUrl, metadata, message, isValid) ==
    [s EXCEPT !.imagePreview = Some(dataUrl),
              !.extractedMetadata = metadata,
              !.extractionMessage = Some(message),
              !.isPromptValid = isValid]

\* A variant of CLEAR_HISTORY that leaves the results in place.
CLEAR_HISTORY_KeepingResults(s) ==
    [s EXCEPT !.generationHistory = <<>>,
              !.activeHistoryId = Null,
              !.activeBatchHistoryIds = Null,
              !.selectedImageIndex = 0]

CLEAR_HISTORY(s) ==
    [s EXCEPT !.generationHistory = <<>>,
              !.generatedImages = Null,
              !.activeHistoryId = Null,
              !.activeBatchHistoryIds = Null,
              !.selectedImageIndex = 0]

(***************************************************************************)
(* Bounds of the model                                                     *)
(***************************************************************************)
\* Invocations of handleGenerate and handleGenerateAllSuggestions together.
MaxGenerations ==
    2

\* Invocations of handleRefine that reach the external call.
MaxRefinements ==
    2

\* The largest numberOfImages of the form.
MaxImages ==
    2

\* The longest list of suggestions handed to handleGenerateAllSuggestions.
MaxSuggestions ==
    2

\* Invocations of the handlers and clicks together, in one run.
MaxOps ==
    3

\* Selections of a thumbnail or of a history entry, and clearings of the
\* history, in one run.
MaxClicks ==
    2

\* Math.random() of a batch id draws from 1..MaxRandom.
MaxRandom ==
    2

ImageModels ==
    {FAST_EDIT_MODEL, HIGH_QUALITY_MODEL}

\* A history item an earlier session persisted: its record has an aspect
\* ratio and no promptMode.
PersistedItem ==
    [id        |-> <<"hist", 0>>,
     images    |-> <<PlainJpeg(0)>>,
     timestamp |-> 0,
     metadata  |-> [model          |-> HIGH_QUALITY_MODEL,
                    prompt         |-> <<"p">>,
                    originalPrompt |-> Null,
                    aspectRatio    |-> Some(AR_16_9),
                    promptMode     |-> Null,
                    filenameSlug   |-> Null]]

\* What the persisted state may hold when the application starts.
Forms ==
    {[model |-> FAST_EDIT_MODEL, numberOfImages |-> MaxImages,
      prompt |-> <<"a">>, promptMode |-> PM_text, generationHistory |-> <<>>],
     [model |-> HIGH_QUALITY_MODEL, numberOfImages |-> 1,
      prompt |-> <<"b", WIDE>>, promptMode |-> PM_text,
      generationHistory |-> <<>>],
     [model |-> FAST_EDIT_MODEL, numberOfImages |-> 1,
      prompt |-> <<"a">>, promptMode |-> PM_json,
      generationHistory |-> <<PersistedItem>>]}

\* Refinement instructions typed into the refinement box.
Instructions ==
    {<<"x">>, <<"y">>}

\* Slugs summarizePromptForFilename may answer.
Slugs ==
    {<<"s">>}

\* The n suggestions a batch is started with: "s1", "s2", ...
SuggestionList(n) ==
    [k \in 1..n |-> <<"s", ToString(k)>>]

\* How an awaited external step of one image may end: the backend call
\* fails, the image does not decode, the canvas gives no context, or all
\* of it succeeds.
Outcomes ==
    {"ok", "backend", "decode", "canvas"}

(***************************************************************************)
(* State of the model                                                      *)
(***************************************************************************)
VARIABLES
    state,      \* the AppState the reducer holds
    rev,        \* the revision in force: "App.tsx", or "part_010" (handleRefine)
                \* or "part_001" (the reducer)
    clock,      \* Date.now()
    gens,       \* handleGenerate invocations awaiting their external calls
    batches,    \* handleGenerateAllSuggestions invocations awaiting theirs
    refs,       \* handleRefine invocations awaiting theirs
    reads,      \* FileReader reads started by handleFileSelect
    codec,      \* a record handed to the codec and what came back
    describes,  \* describeImageStream calls handleDescribeImage awaits
    adds,       \* processFiles calls awaiting their FileReaders
    log         \* what the handlers did (observation only)

vars ==
    <<state, rev, clock, gens, batches, refs, reads, codec, describes, adds,
      log>>

\* The sequence s without its i-th element.
RemoveAt(s, i) ==
    SubSeq(s, 1, i - 1) \o SubSeq(s, i + 1, Len(s))

\* Handler invocations and clicks so far.
Ops ==
    log.generations + log.refinements + log.clicks

initialLog ==
    [generations |-> 0,    \* invocations of the two generate handlers
     refinements |-> 0,    \* refinements that reached the external call
     clicks      |-> 0,    \* selections and clearings of the history
     descriptions |-> 0,   \* invocations of handleDescribeImage
     edits       |-> 0,    \* changes of the prompt text area, clicks on the
                           \* edit toggle and on 'use this metadata', and
                           \* refreshes of the examples
     transfers   |-> 0,    \* records copied into the generation form
     added       |-> 0,    \* processFiles calls that settled
     overtaken   |-> FALSE,
                           \* a generation succeeded while one requested
                           \* before it was still awaited
     bypassed    |-> FALSE,
                           \* a handler was invoked while the button that
                           \* calls it was disabled (isLoading for the
                           \* generate buttons, isLoading or isRefining
                           \* for the refine button)
     lastBatch   |-> [succeeded |-> 0, failed |-> 0, rejected |-> 0]]
                           \* the batch settled last: the suggestions that
                           \* gave an image, those whose backend call
                           \* failed, those whose embedding rejected

(***************************************************************************)
(* handleGenerate (App.tsx): the form's submit hands over the form's       *)
(* prompt, model, aspect ratio and number of images; the callback reads    *)
(* useWebSearch, referenceImages and promptMode of the state it closed     *)
(* over.  Nothing in it looks at isLoading.                                *)
(***************************************************************************)
GenerateTask(s) ==
    [currentPrompt      |-> s.prompt,
     currentModel       |-> s.model,
     currentAspectRatio |-> s.aspectRatio,
     numImages          |-> s.numberOfImages,
     useWebSearch       |-> s.useWebSearch,
     promptMode         |-> s.promptMode,
     referenceImages    |-> s.referenceImages,
     groundedPrompt     |-> <<>>,
     chunks             |-> <<>>,                   \* observation only
     historyAtStart     |-> s.generationHistory,    \* observation only
     pc                 |-> IF s.useWebSearch THEN "grounding" ELSE "generating"]

handleGenerate ==
    /\ log.generations < MaxGenerations /\ Ops < MaxOps
    /\ LET started == START_GENERATION(state)
       IN  state' = IF state.useWebSearch
                    THEN SET_ERROR(started, Msg("Grounding prompt with web search..."))
                    ELSE started
    /\ gens' = Append(gens, GenerateTask(state))
    /\ UNCHANGED clock
    /\ log' = [log EXCEPT !.generations = @ + 1,
                          !.bypassed = @ \/ state.isLoading]
    /\ UNCHANGED <<rev, describes, adds, batches, refs, reads, codec>>

\* The record handleGenerate embeds, once grounding (if any) has ended.
MetadataToEmbed(task, slug) ==
    [model          |-> task.currentModel,
     prompt         |-> IF task.useWebSearch THEN task.groundedPrompt
                        ELSE task.currentPrompt,
     originalPrompt |-> IF task.useWebSearch THEN Some(task.currentPrompt)
                        ELSE Null,
     aspectRatio    |-> IF task.currentModel = HIGH_QUALITY_MODEL
                        THEN Some(task.currentAspectRatio) ELSE Null,
     promptMode     |-> Some(task.promptMode),
     filenameSlug   |-> slug]

\* A variant of the catch block that leaves isLoading as it is.
GenerationFailedLeavingBusy(s, message) ==
    SET_ERROR(s, Msg(message))

\* The catch block of the generate handlers.
GenerationFailed(s, message) ==
    SET_LOADING(SET_ERROR(s, Msg(message)), FALSE)

\* The message of the error a failed call of the image service throws.
BackendFailureMessage ==
    "No image data found in the API response."

\* What embedMetadataInImage is given in a step that ends as `outcome`.
Base64Image(px, outcome) ==
    [px |-> px, decodable |-> outcome # "decode"]

\* The slug of a new record: none in App.tsx, the summary in part_010.
SlugChoices ==
    IF rev = "App.tsx" THEN {Null} ELSE {Some(sl) : sl \in Slugs}

\* A variant of AnyCallFailed: the whole rejects only when every call failed.
OnlyWhenEveryCallFailed(outcomes) ==
    \A k \in DOMAIN outcomes : outcomes[k] = "backend"

\* Promise.all over the K calls of generateImagesFromPrompt rejects as soon
\* as one of them does.
AnyCallFailed(outcomes) ==
    \E k \in DOMAIN outcomes : outcomes[k] = "backend"

\* generateImagesFromPrompt and the embedding of its images settle: the K
\* calls (Promise.all) each end as outcomes[k]; any failure fails the whole.
generateSettled(i, outcomes, slug, now) ==
    LET task == gens[i]
        metadataToEmbed == MetadataToEmbed(task, slug)
        backendFailed == AnyCallFailed(outcomes)
        embedded == [k \in DOMAIN outcomes |->
                        embedMetadataInImage(Base64Image(k, outcomes[k]),
                                             metadataToEmbed,
                                             outcomes[k] # "canvas")]
        rejected == {k \in DOMAIN outcomes : embedded[k].settled = "rejected"}
        imagesWithMetadata == [k \in DOMAIN outcomes |-> Val(embedded[k].url)]
        newHistoryItem == [id        |-> <<"hist", now>>,
                           images    |-> imagesWithMetadata,
                           timestamp |-> now,
                           metadata  |-> metadataToEmbed]
    IN  /\ task.pc = "generating"
        /\ gens' = RemoveAt(gens, i)
        /\ clock' = now
        /\ log' = [log EXCEPT !.overtaken =
                      @ \/ (i > 1 /\ ~backendFailed /\ rejected = {})]
        /\ UNCHANGED <<rev, describes, adds, batches, refs, reads, codec>>
        /\ IF backendFailed
           THEN state' = GenerationFailed(state, BackendFailureMessage)
           ELSE IF rejected # {}
           THEN \E k \in rejected :
                   state' = GenerationFailed(state, embedded[k].message)
           ELSE state' = GENERATION_SUCCESS(state, imagesWithMetadata,
                                            newHistoryItem)

(***************************************************************************)
(* handleGenerateAllSuggestions: one image per suggestion, joined by       *)
(* Promise.all.  It reads model and aspectRatio of the state it closed     *)
(* over; nothing in it looks at isLoading.                                 *)
(***************************************************************************)
BatchTask(s, suggestions) ==
    [suggestions |-> suggestions,
     model       |-> s.model,
     aspectRatio |-> s.aspectRatio]

handleGenerateAllSuggestions(suggestions) ==
    /\ log.generations < MaxGenerations /\ Ops < MaxOps
    /\ IF Len(suggestions) = 0
       THEN /\ UNCHANGED log
            /\ UNCHANGED <<state, batches, clock>>
       ELSE /\ state' = START_GENERATION(state)
            /\ batches' = Append(batches, BatchTask(state, suggestions))
            /\ UNCHANGED clock
            /\ log' = [log EXCEPT !.generations = @ + 1,
                                  !.bypassed = @ \/ state.isLoading]
    /\ UNCHANGED <<rev, describes, adds, gens, refs, reads, codec>>

\* The record the batch embeds into the image of one suggestion.
BatchMetadata(task, suggestionPrompt, slug) ==
    [model          |-> task.model,
     prompt         |-> suggestionPrompt,
     originalPrompt |-> Null,
     aspectRatio    |-> IF task.model = HIGH_QUALITY_MODEL
                        THEN Some(task.aspectRatio) ELSE Null,
     promptMode     |-> Some(PM_text),
     filenameSlug   |-> slug]

\* The promises of the suggestions settle; a rejected one rejects
\* Promise.all, and the catch block reports its message.
batchSettled(i, outcomes, rands, slug, now) ==
    LET task == batches[i]
        n == Len(task.suggestions)
        metadataToEmbed(k) == BatchMetadata(task, task.suggestions[k], slug)
        embedded == [k \in 1..n |->
                        embedMetadataInImage(Base64Image(k, outcomes[k]),
                                             metadataToEmbed(k),
                                             outcomes[k] # "canvas")]
        \* the promises that reject, each with its message
        failures == {<<k, BackendFailureMessage>> :
                        k \in {j \in 1..n : outcomes[j] = "backend"}}
                    \cup {<<k, embedded[k].message>> :
                        k \in {j \in 1..n : /\ outcomes[j] # "backend"
                                            /\ embedded[j].settled = "rejected"}}
        newHistoryItems == [k \in 1..n |->
                              [id        |-> <<"hist", now, rands[k]>>,
                               images    |-> <<Val(embedded[k].url)>>,
                               timestamp |-> now,
                               metadata  |-> metadataToEmbed(k)]]
        allGeneratedImages == [k \in 1..n |-> newHistoryItems[k].images[1]]
    IN  /\ DOMAIN outcomes = 1..n
        /\ DOMAIN rands = 1..n
        /\ batches' = RemoveAt(batches, i)
        /\ clock' = now
        /\ log' = [log EXCEPT !.lastBatch =
              [succeeded |-> Cardinality({k \in 1..n : outcomes[k] = "ok"}),
               failed    |-> Cardinality({k \in 1..n : outcomes[k] = "backend"}),
               rejected  |-> Cardinality({k \in 1..n :
                                outcomes[k] \in {"decode", "canvas"}})]]
        /\ UNCHANGED <<rev, describes, adds, gens, refs, reads, codec>>
        /\ IF failures # {}
           THEN \E f \in failures : state' = GenerationFailed(state, f[2])
           ELSE state' = BATCH_GENERATION_SUCCESS(state, allGeneratedImages,
                                                  newHistoryItems)

(***************************************************************************)
(* handleRefine.  Its guards are on generatedImages, the refinement text   *)
(* and the active history item; nothing in it looks at isRefining.  The    *)
(* values it works on are those of the state it closed over.               *)
(***************************************************************************)
\* generationHistory.find(h => h.id === historyIdToUse)
FindHistoryItem(s, id) ==
    LET hits == {k \in 1..Len(s.generationHistory) :
                    Some(s.generationHistory[k].id) = id}
    IN  IF hits = {} THEN Null
        ELSE Some(s.generationHistory[CHOOSE k \in hits :
                                         \A j \in hits : k <= j])

RefineTask(s, activeHistoryItem) ==
    [refinementPrompt   |-> s.refinementPrompt,
     activeHistoryItem  |-> activeHistoryItem,
     selectedImageIndex |-> s.selectedImageIndex,
     isBatch            |-> ~IsNull(s.activeBatchHistoryIds),
     historyAtStart     |-> s.generationHistory,    \* observation only
     imagesAtStart      |-> s.generatedImages]      \* observation only

\* A variant of the catch block that leaves isRefining as it is.
RefinementFailedLeavingBusy(s, message) ==
    SET_ERROR(s, Msg(message))

\* The catch block of handleRefine.
RefinementFailed(s, message) ==
    SET_REFINING(SET_ERROR(s, Msg(message)), FALSE)

\* A variant of handleRefine that does not report an id that resolves to
\* no item: it raises the busy flag and goes on.
handleRefineIgnoringStaleId ==
    LET activeHistoryItem == FindHistoryItem(state, ActiveId(state))
        started == SET_ERROR(SET_REFINING(state, TRUE), Null)
    IN  /\ UNCHANGED <<rev, describes, adds, clock, gens, batches, reads, codec>>
        /\ IF IsNull(state.generatedImages) \/ Trim(state.refinementPrompt) = <<>>
           THEN /\ UNCHANGED log
                /\ UNCHANGED <<state, refs>>
           ELSE IF IsNull(activeHistoryItem)
           THEN /\ state' = started
                /\ UNCHANGED log
                /\ UNCHANGED refs
           ELSE IF IsNull(At(Val(state.generatedImages), state.selectedImageIndex))
           THEN /\ state' = RefinementFailed(started,
                     "Cannot read properties of undefined (reading 'split')")
                /\ UNCHANGED log
                /\ UNCHANGED refs
           ELSE /\ log.refinements < MaxRefinements /\ Ops < MaxOps
                /\ state' = started
                /\ refs' = Append(refs, RefineTask(state, Val(activeHistoryItem)))
                /\ log' = [log EXCEPT
                             !.refinements = @ + 1,
                             !.bypassed = @ \/ state.isLoading
                                            \/ state.isRefining]

handleRefine ==
    LET activeHistoryItem == FindHistoryItem(state, ActiveId(state))
        started == SET_ERROR(SET_REFINING(state, TRUE), Null)
    IN  /\ UNCHANGED <<rev, describes, adds, clock, gens, batches, reads, codec>>
        /\ IF IsNull(state.generatedImages) \/ Trim(state.refinementPrompt) = <<>>
           THEN /\ UNCHANGED log
                /\ UNCHANGED <<state, refs>>
           ELSE IF IsNull(activeHistoryItem)
           THEN /\ state' = SET_ERROR(state,
                     Msg("Could not find the active history item to refine."))
                /\ UNCHANGED log
                /\ UNCHANGED refs
           ELSE IF IsNull(At(Val(state.generatedImages), state.selectedImageIndex))
           THEN \* generatedImages[selectedImageIndex] is undefined: .split throws
                /\ state' = RefinementFailed(started,
                     "Cannot read properties of undefined (reading 'split')")
                /\ UNCHANGED log
                /\ UNCHANGED refs
           ELSE /\ log.refinements < MaxRefinements /\ Ops < MaxOps
                /\ state' = started
                /\ refs' = Append(refs, RefineTask(state, Val(activeHistoryItem)))
                /\ log' = [log EXCEPT
                             !.refinements = @ + 1,
                             !.bypassed = @ \/ state.isLoading
                                            \/ state.isRefining]

\* The block a refinement appends to the prompt of the record.
RefinementNote(task) ==
    IF rev = "part_010" /\ task.activeHistoryItem.metadata.model = HIGH_QUALITY_MODEL
    THEN NOTE_REFINED_FROM_IMAGEN \o task.refinementPrompt
    ELSE NOTE_REFINEMENT \o task.refinementPrompt

\* newMetadata of handleRefine: App.tsx spreads the old record and replaces
\* its prompt; part_010 also replaces the slug and sets the model.
RefinedMetadata(task, slug) ==
    LET old == task.activeHistoryItem.metadata
        newPromptForMetadata == old.prompt \o RefinementNote(task)
    IN  IF rev = "App.tsx"
        THEN [old EXCEPT !.prompt = newPromptForMetadata]
        ELSE [old EXCEPT !.prompt = newPromptForMetadata,
                         !.filenameSlug = slug,
                         !.model = FAST_EDIT_MODEL]

\* The images of the refined history item.
UpdatedHistoryImages(task, refinedImageWithMetadata) ==
    IF rev = "App.tsx" \/ task.isBatch
    THEN <<refinedImageWithMetadata>>
    ELSE [k \in 1..Len(task.activeHistoryItem.images) |->
            IF k - 1 = task.selectedImageIndex THEN refinedImageWithMetadata
            ELSE task.activeHistoryItem.images[k]]

\* The pixels refineImage answers with.
RefinedPx ==
    0

\* refineImage and the embedding of its image settle.
refineSettled(i, outcome, slug) ==
    LET task == refs[i]
        newMetadata == RefinedMetadata(task, slug)
        embedded == embedMetadataInImage(Base64Image(RefinedPx, outcome),
                                         newMetadata, outcome # "canvas")
        refinedImageWithMetadata == Val(embedded.url)
        newHistoryItem ==
            [task.activeHistoryItem EXCEPT
                !.images = UpdatedHistoryImages(task, refinedImageWithMetadata),
                !.metadata = newMetadata]
    IN  /\ refs' = RemoveAt(refs, i)
        /\ UNCHANGED <<rev, describes, adds, clock, gens, batches, reads, codec, log>>
        /\ IF outcome = "backend"
           THEN state' = RefinementFailed(state, BackendFailureMessage)
           ELSE IF embedded.settled = "rejected"
           THEN state' = RefinementFailed(state, embedded.message)
           ELSE state' = REFINEMENT_SUCCESS(state, refinedImageWithMetadata,
                                            newHistoryItem)

(***************************************************************************)
(* What the user does between the handlers                                 *)
(***************************************************************************)
\* The refinement box of ResultsViewer.
SetRefinementPrompt(text) ==
    /\ ~IsNull(state.generatedImages)
    /\ state' = SET_FORM_FIELD(state, "refinementPrompt", text)
    /\ UNCHANGED log
    /\ UNCHANGED <<rev, describes, adds, clock, gens, batches, refs, reads, codec>>

\* A thumbnail of ResultsViewer.
SetSelectedImageIndex(index) ==
    /\ log.clicks < MaxClicks /\ Ops < MaxOps
    /\ ~IsNull(state.generatedImages)
    /\ index + 1 \in 1..Len(Val(state.generatedImages))
    /\ state' = SET_SELECTED_IMAGE_INDEX(state, index)
    /\ log' = [log EXCEPT !.clicks = @ + 1]
    /\ UNCHANGED <<rev, describes, adds, clock, gens, batches, refs, reads, codec>>

\* An entry of GenerationHistory.
handleSelectHistoryItem(k) ==
    /\ log.clicks < MaxClicks /\ Ops < MaxOps
    /\ k \in 1..Len(state.generationHistory)
    /\ state' = SET_HISTORY_ITEM(state, state.generationHistory[k])
    /\ log' = [log EXCEPT !.clicks = @ + 1]
    /\ UNCHANGED <<rev, describes, adds, clock, gens, batches, refs, reads, codec>>

\* The "clear" button of GenerationHistory.
ClearHistory ==
    /\ log.clicks < MaxClicks /\ Ops < MaxOps
    /\ Len(state.generationHistory) > 0
    /\ state' = CLEAR_HISTORY(state)
    /\ log' = [log EXCEPT !.clicks = @ + 1]
    /\ UNCHANGED <<rev, describes, adds, clock, gens, batches, refs, reads, codec>>

\* What the refinement box may hold.
RefinementTexts ==
    Instructions

(***************************************************************************)
(* The generate / refine machine                                           *)
(***************************************************************************)
NoCodec ==
    [phase |-> "none", R |-> Null, image |-> Null, ctxOk |-> TRUE,
     embedded |-> Null, extracted |-> Null]

Init ==
    /\ \E form \in Forms :
          state = [initialState EXCEPT !.model = form.model,
                                       !.numberOfImages = form.numberOfImages,
                                       !.prompt = form.prompt,
                                       !.promptMode = form.promptMode,
                                       !.generationHistory =
                                           form.generationHistory]
    /\ rev \in {"App.tsx", "part_010"}
    /\ clock = 1
    /\ gens = <<>>
    /\ batches = <<>>
    /\ refs = <<>>
    /\ reads = <<>>
    /\ codec = NoCodec
    /\ describes = 0
    /\ adds = <<>>
    /\ log = initialLog

GenerationSettles ==
    \E i \in 1..Len(gens), now \in {clock, clock + 1}, slug \in SlugChoices :
       \E outcomes \in [1..gens[i].numImages -> Outcomes] :
          generateSettled(i, outcomes, slug, now)

StartBatch ==
    \E n \in {0, MaxSuggestions} :
       handleGenerateAllSuggestions(SuggestionList(n))

BatchSettles ==
    \E i \in 1..Len(batches), now \in {clock, clock + 1}, slug \in SlugChoices :
       \E outcomes \in [1..Len(batches[i].suggestions) -> Outcomes],
          rands \in [1..Len(batches[i].suggestions) -> 1..MaxRandom] :
          batchSettled(i, outcomes, rands, slug, now)

RefinementSettles ==
    \E i \in 1..Len(refs), outcome \in Outcomes, slug \in SlugChoices :
       refineSettled(i, outcome, slug)

TypeRefinement ==
    \E text \in RefinementTexts : SetRefinementPrompt(text)

ClickThumbnail ==
    \E index \in 0..(MaxImages - 1) : SetSelectedImageIndex(index)

ClickHistoryItem ==
    \E k \in 1..Len(state.generationHistory) : handleSelectHistoryItem(k)

Next ==
    \/ handleGenerate
    \/ GenerationSettles
    \/ StartBatch
    \/ BatchSettles
    \/ handleRefine
    \/ RefinementSettles
    \/ TypeRefinement
    \/ ClickThumbnail
    \/ ClickHistoryItem
    \/ ClearHistory

Spec ==
    Init /\ [][Next]_vars

(***************************************************************************)
(* The extractor: handleFileSelect and the callbacks of its FileReader     *)
(***************************************************************************)
\* A file as the FileReader sees it: whether reading it fails, and the data
\* URL it reads (Null: the reader ends with no result).
FileOf(dataUrl) ==
    [readable |-> TRUE, dataUrl |-> Some(dataUrl)]

handleFileSelect(file) ==
    /\ log.clicks < MaxClicks
    /\ state' = START_EXTRACTION(state)
    /\ reads' = Append(reads, file)
    /\ log' = [log EXCEPT !.clicks = @ + 1]
    /\ UNCHANGED <<rev, describes, adds, clock, gens, batches, refs, codec>>

\* { model: 'gemini-2.5-flash-image', prompt: foundMetadata }
LegacyMetadata(foundMetadata) ==
    [model          |-> FAST_EDIT_MODEL,
     prompt         |-> foundMetadata,
     originalPrompt |-> Null,
     aspectRatio    |-> Null,
     promptMode     |-> Null,
     filenameSlug   |-> Null]

\* What reader.onload dispatches for a data URL.
ExtractionOutcome(s, dataUrl) ==
    LET foundMetadata == extractMetadataFromImage(dataUrl)
    IN  IF foundMetadata.kind = "thrown"
        THEN s      \* an exception would end the callback before its dispatch
        ELSE IF foundMetadata.kind = "Structured"
        THEN EXTRACTION_RESULT(s, dataUrl, foundMetadata.metadata,
                 "Successfully extracted generation metadata.", TRUE)
        ELSE IF foundMetadata.kind = "LegacyString"
        THEN IF JSON_parse(Val(foundMetadata.text)).ok
             THEN EXTRACTION_RESULT(s, dataUrl,
                      Some(LegacyMetadata(Val(foundMetadata.text))),
                      "Found a legacy prompt and assumed it's for the Nano Banana model.",
                      TRUE)
             ELSE EXTRACTION_RESULT(s, dataUrl,
                      Some(LegacyMetadata(Val(foundMetadata.text))),
                      "An embedded prompt was found, but it is not valid JSON.",
                      FALSE)
        ELSE EXTRACTION_RESULT(s, dataUrl, Null,
                 "Could not find embedded metadata in this image's EXIF data.",
                 FALSE)

readerOnload(i) ==
    /\ i \in 1..Len(reads)
    /\ reads[i].readable
    /\ state' = IF IsNull(reads[i].dataUrl)
                THEN SET_ERROR(state, Msg("Could not read file data."))
                ELSE ExtractionOutcome(state, Val(reads[i].dataUrl))
    /\ reads' = RemoveAt(reads, i)
    /\ UNCHANGED <<rev, describes, adds, clock, gens, batches, refs, codec, log>>

readerOnerror(i) ==
    /\ i \in 1..Len(reads)
    /\ ~reads[i].readable
    /\ state' = SET_ERROR(state, Msg("Error reading file."))
    /\ reads' = RemoveAt(reads, i)
    /\ UNCHANGED <<rev, describes, adds, clock, gens, batches, refs, codec, log>>

(***************************************************************************)
(* The codec on its own: a record and an image are handed to               *)
(* embedMetadataInImage, and what it resolves with to                      *)
(* extractMetadataFromImage; files are handed to the extractor.            *)
(***************************************************************************)
\* Prompts of the records handed to the codec: plain, with a quote, with a
\* backslash, with a line break, a JSON array, Latin-1, above U+00FF.
CodecPrompts ==
    {<<"a">>, <<"a", "\"", "b">>, <<"\\", "n">>, <<"a", "\n", "b">>,
     <<"[", "1", "]">>, <<"U+00E9">>, <<"b", WIDE>>}

CodecRecords ==
    [model          : ImageModels,
     prompt         : CodecPrompts,
     originalPrompt : {Null, Some(<<"o">>)},
     aspectRatio    : {Null, Some(AR_16_9)},
     promptMode     : {Null, Some(PM_text), Some(PM_json)},
     filenameSlug   : {Null} \cup {Some(sl) : sl \in Slugs}]

CodecInputs ==
    [phase     : {"input"},
     R         : CodecRecords,
     image     : [px : {1}, decodable : BOOLEAN],
     ctxOk     : BOOLEAN,
     embedded  : {Null},
     extracted : {Null}]

\* Tag texts of files that did not come out of this application.
TagTexts ==
    {<<"h", "i">>,                                         \* plain text
     <<"[", "\"", "a", "\"", "]">>,                        \* a JSON array
     <<"n", "u", "l", "l">>,
     <<"1", "2">>,
     <<"\"", "s", "\"">>,                                  \* a JSON string
     <<"{", "}">>,
     QuoteString(K_model) \o <<":">>,
     <<"{">> \o QuoteString(K_model) \o <<":">> \o QuoteString(<<"m">>)
            \o <<"}">>,                                    \* no prompt
     <<"{">> \o QuoteString(K_model) \o <<":">> \o QuoteString(<<>>)
            \o <<",">> \o QuoteString(K_prompt) \o <<":">>
            \o QuoteString(<<"p">>) \o <<"}">>,            \* empty model
     <<" ", "{">> \o QuoteString(K_prompt) \o <<":">> \o QuoteString(<<"p">>)
            \o <<",">> \o QuoteString(K_model) \o <<":">>
            \o QuoteString(<<"m">>) \o <<"}", "\n">>}      \* a record

Png ==
    [mime |-> "image/png", px |-> 1, seg |-> "none", tag |-> Null]

CorruptJpeg ==
    [mime |-> "image/jpeg", px |-> 1, seg |-> "corrupt", tag |-> Null]

\* A JPEG whose EXIF segment has no ImageDescription tag.
JpegWithoutTag ==
    [mime |-> "image/jpeg", px |-> 1, seg |-> "exif", tag |-> Null]

UploadedFiles ==
    {FileOf(JpegWithTag(1, text)) : text \in TagTexts \cup {<<>>}}
    \cup {FileOf(PlainJpeg(1)), FileOf(Png), FileOf(CorruptJpeg),
          FileOf(JpegWithoutTag),
          [readable |-> FALSE, dataUrl |-> Null],
          [readable |-> TRUE, dataUrl |-> Null]}

\* The files the user may pick: the image the codec resolved with, if any,
\* else a file from elsewhere.
Files ==
    IF codec.phase = "none" THEN UploadedFiles
    ELSE IF ~IsNull(codec.embedded) /\ Val(codec.embedded).settled = "resolved"
    THEN {FileOf(Val(Val(codec.embedded).url))}
    ELSE {}

CodecEmbed ==
    /\ codec.phase = "input"
    /\ codec' = [codec EXCEPT
                   !.phase = "embedded",
                   !.embedded = Some(embedMetadataInImage(codec.image, codec.R,
                                                          codec.ctxOk))]
    /\ UNCHANGED <<state, rev, describes, adds, clock, gens, batches, refs, reads, log>>

CodecExtract ==
    /\ codec.phase = "embedded"
    /\ Val(codec.embedded).settled = "resolved"
    /\ codec' = [codec EXCEPT
                   !.phase = "extracted",
                   !.extracted = Some(extractMetadataFromImage(
                                         Val(Val(codec.embedded).url)))]
    /\ UNCHANGED <<state, rev, describes, adds, clock, gens, batches, refs, reads, log>>

SelectFile ==
    \E file \in Files : handleFileSelect(file)

FileLoads ==
    \E i \in 1..Len(reads) : readerOnload(i)

FileFails ==
    \E i \in 1..Len(reads) : readerOnerror(i)

InitCodec ==
    /\ state = SET_VIEW(initialState, "extract")
    /\ rev = "App.tsx"
    /\ clock = 1
    /\ gens = <<>>
    /\ batches = <<>>
    /\ refs = <<>>
    /\ reads = <<>>
    /\ (codec \in CodecInputs \/ codec = NoCodec)
    /\ describes = 0
    /\ adds = <<>>
    /\ log = initialLog

NextCodec ==
    \/ CodecEmbed
    \/ CodecExtract
    \/ SelectFile
    \/ FileLoads
    \/ FileFails

SpecCodec ==
    InitCodec /\ [][NextCodec]_vars


(***************************************************************************)
(* The extractor's editor: describing an image, editing the extracted      *)
(* prompt, and the example prompts fetched when the application mounts     *)
(***************************************************************************)
\* Calls of handleDescribeImage in one run.
MaxDescribes ==
    1

\* Changes of the prompt text area and clicks on the edit toggle together,
\* in one run.
MaxEdits ==
    3

\* case 'DESCRIPTION_SUCCESS'.  The earlier revision of the reducer
\* (part_001) enters the editing view, the later one leaves it.
DESCRIPTION_SUCCESS(s, metadata, message) ==
    [s EXCEPT !.extractedMetadata = Some(metadata),
              !.isPromptValid = TRUE,
              !.extractionMessage = Some(message),
              !.isEditingPrompt = (rev = "part_001")]

SET_EXTRACTED_METADATA(s, payload) ==
    [s EXCEPT !.extractedMetadata = payload]

SET_IS_EDITING_PROMPT(s, payload) ==
    [s EXCEPT !.isEditingPrompt = payload]

SET_FETCHING_EXAMPLES(s, payload) ==
    [s EXCEPT !.isFetchingExamples = payload]

\* case 'VALIDATE_EDITED_PROMPT' of AppContext.tsx.
ValidateEditedPrompt(s) ==
    IF IsNull(s.extractedMetadata) THEN s
    ELSE LET model      == Val(s.extractedMetadata).model
             prompt     == Val(s.extractedMetadata).prompt
             promptMode == Val(s.extractedMetadata).promptMode
         IN  IF model = FAST_EDIT_MODEL /\ promptMode = Some(PM_json)
             THEN IF JSON_parse(prompt).ok
                  THEN [s EXCEPT !.isPromptValid = TRUE,
                                 !.extractionMessage =
                                     Some("The edited JSON prompt is valid.")]
                  ELSE [s EXCEPT !.isPromptValid = FALSE,
                                 !.extractionMessage =
                                     Some("The edited prompt is not valid JSON.")]
             ELSE IF Len(Trim(prompt)) > 0
                  THEN [s EXCEPT !.isPromptValid = TRUE,
                                 !.extractionMessage =
                                     Some("The edited prompt is valid.")]
                  ELSE [s EXCEPT !.isPromptValid = FALSE,
                                 !.extractionMessage =
                                     Some("Prompt cannot be empty.")]

\* case 'VALIDATE_EDITED_PROMPT' of the earlier revision (part_001).
ValidateEditedPromptEarlier(s) ==
    IF IsNull(s.extractedMetadata) THEN s
    ELSE LET isValid ==
                 Val(s.extractedMetadata).model = FAST_EDIT_MODEL
                     => JSON_parse(Val(s.extractedMetadata).prompt).ok
         IN  [s EXCEPT !.isPromptValid = isValid,
                       !.extractionMessage =
                           IF isValid
                           THEN Some("The edited prompt is valid.")
                           ELSE Some("The edited prompt is not valid JSON.")]

VALIDATE_EDITED_PROMPT(s) ==
    IF rev = "part_001" THEN ValidateEditedPromptEarlier(s)
    ELSE ValidateEditedPrompt(s)

\* case 'SET_EXAMPLE_PROMPTS': `${state.error}\n${error}` when the slot
\* holds a message and the payload brings one.
SET_EXAMPLE_PROMPTS(s, prompts, error) ==
    [s EXCEPT !.examplePrompts = prompts,
              !.isFetchingExamples = FALSE,
              !.error = IF IsNull(error) THEN s.error
                        ELSE IF IsNull(s.error) THEN error
                        ELSE Some(Val(s.error) \o Val(error))]

\* The prompts generateExamplePromptsStream answers with, and the defaults.
fetchedPrompts ==
    <<"fetched">>

fallbackPrompts ==
    <<"fallback">>

\* fetchExamplePrompts up to its call of generateExamplePromptsStream.  The
\* application calls it when it mounts (initialState has isFetchingExamples
\* set); afterwards the refresh button of the generator form calls it, and
\* that button is disabled while isFetchingExamples.
fetchExamplePrompts ==
    /\ ~state.isFetchingExamples
    /\ log.edits < MaxEdits
    /\ state' = SET_FETCHING_EXAMPLES(state, TRUE)
    /\ log' = [log EXCEPT !.edits = @ + 1]
    /\ UNCHANGED <<rev, describes, adds, clock, gens, batches, refs, reads, codec>>

\* fetchExamplePrompts: generateExamplePromptsStream answers or throws.
examplesSettled(ok) ==
    /\ state.isFetchingExamples
    /\ state' = IF ok
                THEN SET_EXAMPLE_PROMPTS(state, fetchedPrompts, Null)
                ELSE SET_EXAMPLE_PROMPTS(state, fallbackPrompts,
                         Msg("Could not fetch new example prompts. Displaying defaults."))
    /\ UNCHANGED <<rev, describes, adds, clock, gens, batches, refs, reads, codec, log>>

\* The describe button is rendered while a preview is shown without a
\* record, and is disabled while a description is awaited.
DescribeButtonEnabled(s) ==
    /\ ~IsNull(s.imagePreview)
    /\ IsNull(s.extractedMetadata)
    /\ ~s.isDescribing

\* handleDescribeImage up to its call of describeImageStream.
handleDescribeImage ==
    /\ log.descriptions < MaxDescribes
    /\ log' = [log EXCEPT !.descriptions = @ + 1,
                          !.bypassed = @ \/ ~DescribeButtonEnabled(state)]
    /\ IF IsNull(state.imagePreview)
       THEN UNCHANGED <<state, describes>>
       ELSE /\ state' = SET_DESCRIBING(state, TRUE)
            /\ describes' = describes + 1
    /\ UNCHANGED <<rev, adds, clock, gens, batches, refs, reads, codec>>

\* { model: 'gemini-2.5-flash-image', prompt: description, promptMode: 'text' }
DescribedMetadata(description) ==
    [model          |-> FAST_EDIT_MODEL,
     prompt         |-> description,
     originalPrompt |-> Null,
     aspectRatio    |-> Null,
     promptMode     |-> Some(PM_text),
     filenameSlug   |-> Null]

\* handleDescribeImage from the end of the stream on: try, catch, finally.
describeSettled(ok, description) ==
    /\ describes > 0
    /\ state' = SET_DESCRIBING(
                    IF ok
                    THEN DESCRIPTION_SUCCESS(state,
                             DescribedMetadata(description),
                             "AI-generated description created!")
                    ELSE SET_ERROR(state,
                             Msg("Failed to generate description.")),
                    FALSE)
    /\ describes' = describes - 1
    /\ UNCHANGED <<rev, adds, clock, gens, batches, refs, reads, codec, log>>

\* A variant of onToggleEdit that leaves the editing view without
\* validating.
onToggleEditWithoutValidation ==
    /\ log.edits < MaxEdits
    /\ state' = SET_IS_EDITING_PROMPT(state, ~state.isEditingPrompt)
    /\ log' = [log EXCEPT !.edits = @ + 1,
                          !.bypassed = @ \/ IsNull(state.extractedMetadata)]
    /\ UNCHANGED <<rev, describes, adds, clock, gens, batches, refs, reads, codec>>

\* onToggleEdit (PromptExtractor.tsx, MetadataViewer.tsx).  The toggle is
\* rendered while a record is shown.
onToggleEdit ==
    /\ log.edits < MaxEdits
    /\ state' = SET_IS_EDITING_PROMPT(
                    IF state.isEditingPrompt
                    THEN VALIDATE_EDITED_PROMPT(state)
                    ELSE state,
                    ~state.isEditingPrompt)
    /\ log' = [log EXCEPT !.edits = @ + 1,
                          !.bypassed = @ \/ IsNull(state.extractedMetadata)]
    /\ UNCHANGED <<rev, describes, adds, clock, gens, batches, refs, reads, codec>>

\* handlePromptTextAreaChange (PromptExtractor.tsx).  The text area is
\* rendered while a record is shown in the editing view.
handlePromptTextAreaChange(newValue) ==
    /\ log.edits < MaxEdits
    /\ state' = IF IsNull(state.extractedMetadata) THEN state
                ELSE LET extractedMetadata == Val(state.extractedMetadata)
                         isNanoBanana ==
                             extractedMetadata.model = FAST_EDIT_MODEL
                         newPrompt == IF isNanoBanana
                                      THEN <<"[">> \o newValue \o <<"]">>
                                      ELSE newValue
                     IN  SET_EXTRACTED_METADATA(state,
                             Some([extractedMetadata EXCEPT
                                      !.prompt = newPrompt]))
    /\ log' = [log EXCEPT !.edits = @ + 1,
                          !.bypassed = @ \/ IsNull(state.extractedMetadata)
                                         \/ ~state.isEditingPrompt]
    /\ UNCHANGED <<rev, describes, adds, clock, gens, batches, refs, reads, codec>>

\* isLikelyJson of handleUseExtractedPrompt: the trimmed text is enclosed in
\* braces or in brackets.
isLikelyJson(str) ==
    LET trimmed == Trim(str)
    IN  /\ Len(trimmed) > 0
        /\ \/ trimmed[1] = "{" /\ trimmed[Len(trimmed)] = "}"
           \/ trimmed[1] = "[" /\ trimmed[Len(trimmed)] = "]"

\* The dispatches of handleUseExtractedPrompt for a record.
UseExtracted(s, metadata) ==
    LET isNanoBanana  == metadata.model = FAST_EDIT_MODEL
        newPromptMode == IF isNanoBanana /\ isLikelyJson(metadata.prompt)
                         THEN PM_json ELSE PM_text
    IN  SET_VIEW(
          SET_FORM_FIELD(
            SET_FORM_FIELD(
              SET_FORM_FIELD(
                SET_FORM_FIELD(
                  SET_FORM_FIELD(s, "model", metadata.model),
                  "aspectRatio", OrElse(metadata.aspectRatio, AR_1_1)),
                "prompt", metadata.prompt),
              "promptMode", newPromptMode),
            "referenceImages", <<>>),
          "generate")

\* handleUseExtractedPrompt (App.tsx).  The button is rendered while a
\* record is shown, in the editing view too, and is disabled while
\* isPromptValid is false.
handleUseExtractedPrompt ==
    /\ log.edits < MaxEdits
    /\ LET passes == ~IsNull(state.extractedMetadata) /\ state.isPromptValid
       IN  /\ state' = IF passes
                       THEN UseExtracted(state, Val(state.extractedMetadata))
                       ELSE state
           /\ log' = [log EXCEPT
                        !.edits = @ + 1,
                        !.transfers = IF passes THEN @ + 1 ELSE @,
                        !.bypassed = @ \/ ~passes]
    /\ UNCHANGED <<rev, describes, adds, clock, gens, batches, refs, reads, codec>>

\* What the user may type into the prompt text area.
EditTexts ==
    {<<>>, <<" ">>, <<"h", "i">>, <<"1">>}

\* Descriptions describeImageStream may stream.
Descriptions ==
    {<<"d">>}

\* A record of this application with a structured prompt, and one with a
\* freeform prompt.
StructuredRecord ==
    [model          |-> FAST_EDIT_MODEL,
     prompt         |-> <<"[", "1", "]">>,
     originalPrompt |-> Null,
     aspectRatio    |-> Null,
     promptMode     |-> Some(PM_json),
     filenameSlug   |-> Null]

FreeformRecord ==
    [model          |-> HIGH_QUALITY_MODEL,
     prompt         |-> <<"a">>,
     originalPrompt |-> Null,
     aspectRatio    |-> Some(AR_16_9),
     promptMode     |-> Some(PM_text),
     filenameSlug   |-> Null]

\* The files the user may pick in the extractor: two images this
\* application embedded a record in, an image with a plain-text tag, an
\* image without metadata, and a file the reader fails on.
ExtractFiles ==
    {FileOf(JpegWithTag(1, JSON_stringify(StructuredRecord))),
     FileOf(JpegWithTag(1, JSON_stringify(FreeformRecord))),
     FileOf(JpegWithTag(1, <<"h", "i">>)),
     FileOf(Png),
     [readable |-> FALSE, dataUrl |-> Null]}

SelectExtractFile ==
    \E file \in ExtractFiles : handleFileSelect(file)

ExamplesSettle ==
    \E ok \in BOOLEAN : examplesSettled(ok)

DescriptionSettles ==
    \E ok \in BOOLEAN, description \in Descriptions :
       describeSettled(ok, description)

TypePrompt ==
    \E newValue \in EditTexts : handlePromptTextAreaChange(newValue)

\* The application as mounted, the extractor in view; rev names the
\* revision of the reducer.
InitExtract ==
    /\ state = SET_VIEW(initialState, "extract")
    /\ rev \in {"App.tsx", "part_001"}
    /\ clock = 1
    /\ gens = <<>>
    /\ batches = <<>>
    /\ refs = <<>>
    /\ reads = <<>>
    /\ codec = NoCodec
    /\ describes = 0
    /\ adds = <<>>
    /\ log = initialLog

NextExtract ==
    \/ SelectExtractFile
    \/ FileLoads
    \/ FileFails
    \/ handleDescribeImage
    \/ DescriptionSettles
    \/ onToggleEdit
    \/ TypePrompt
    \/ handleUseExtractedPrompt
    \/ fetchExamplePrompts
    \/ ExamplesSettle

SpecExtract ==
    InitExtract /\ [][NextExtract]_vars

\* Files with short tag texts: one for each result of a read.
ShortFiles ==
    {FileOf(JpegWithTag(1, <<"h", "i">>)),
     FileOf(JpegWithTag(1, <<"1", "2">>)),
     FileOf(JpegWithTag(1, <<>>)),
     FileOf(PlainJpeg(1)), FileOf(Png), FileOf(CorruptJpeg),
     FileOf(JpegWithoutTag),
     [readable |-> FALSE, dataUrl |-> Null],
     [readable |-> TRUE, dataUrl |-> Null]}

SelectShortFile ==
    \E file \in ShortFiles : handleFileSelect(file)

NextReads ==
    \/ SelectShortFile
    \/ FileLoads
    \/ FileFails

\* The FileReader ends every read: it calls onload or onerror.
SpecReadsFair ==
    /\ InitExtract /\ [][NextReads]_vars
    /\ WF_vars(FileLoads)
    /\ WF_vars(FileFails)

(***************************************************************************)
(* The generation form: model and prompt-mode buttons, the model effect,   *)
(* reference images, the prompt editors                                    *)
(***************************************************************************)
\* The effect of App on [model]: the high-quality model takes no reference
\* images.
ModelEffect(s) ==
    IF s.model = HIGH_QUALITY_MODEL
    THEN SET_FORM_FIELD(s, "referenceImages", <<>>)
    ELSE s

\* A model button of the form, and the effect that runs when the model
\* has changed.
SetModel(model) ==
    /\ log.edits < MaxEdits
    /\ state' = LET chosen == SET_FORM_FIELD(state, "model", model)
                IN  IF model # state.model THEN ModelEffect(chosen)
                    ELSE chosen
    /\ log' = [log EXCEPT !.edits = @ + 1]
    /\ UNCHANGED <<rev, describes, adds, clock, gens, batches, refs, reads, codec>>

\* A prompt-mode button of the form; the buttons are rendered unless the
\* model is the high-quality one.
SetPromptMode(promptMode) ==
    /\ log.edits < MaxEdits
    /\ state' = SET_FORM_FIELD(state, "promptMode", promptMode)
    /\ log' = [log EXCEPT !.edits = @ + 1,
                          !.bypassed = @ \/ state.model = HIGH_QUALITY_MODEL]
    /\ UNCHANGED <<rev, describes, adds, clock, gens, batches, refs, reads, codec>>

\* Calls of processFiles in one run.
MaxAdds ==
    2

\* A file dropped on the form: whether its type starts with 'image/',
\* whether its FileReader succeeds, and the data URL it reads.
DroppedImage(px) ==
    [isImage |-> TRUE, readable |-> TRUE, dataUrl |-> PlainJpeg(px)]

DroppedText ==
    [isImage |-> FALSE, readable |-> TRUE, dataUrl |-> Png]

DroppedUnreadable ==
    [isImage |-> TRUE, readable |-> FALSE, dataUrl |-> Png]

\* The lists of files the user may drop.
FileLists ==
    {<<DroppedImage(1)>>,
     <<DroppedImage(2), DroppedText>>,
     <<DroppedUnreadable>>}

\* The files of a list whose type starts with 'image/'.
ImageFiles(files) ==
    SelectSeq(files, LAMBDA f : f.isImage)

\* processFiles up to Promise.all: a FileReader is started for every image
\* file; the callback closes over referenceImages, isImagen and promptMode
\* of the render it was created in.  The drop zone is rendered unless the
\* model is the high-quality one.
processFiles(files) ==
    /\ Len(adds) + log.added < MaxAdds
    /\ adds' = Append(adds,
                  [referenceImages |-> state.referenceImages,
                   isImagen        |-> state.model = HIGH_QUALITY_MODEL,
                   promptMode      |-> state.promptMode,
                   files           |-> ImageFiles(files)])
    /\ log' = [log EXCEPT
                 !.bypassed = @ \/ state.model = HIGH_QUALITY_MODEL]
    /\ UNCHANGED <<state, rev, describes, clock, gens, batches, refs, reads, codec>>

\* The data URLs Promise.all resolves with.
ImageDataUrls(files) ==
    [k \in 1..Len(files) |-> files[k].dataUrl]

\* The then-callback of processFiles.
FilesRead(s, add) ==
    LET withImages == SET_FORM_FIELD(s, "referenceImages",
                          add.referenceImages \o ImageDataUrls(add.files))
    IN  IF ~add.isImagen /\ add.promptMode = PM_json
        THEN SET_FORM_FIELD(
                 SET_FORM_FIELD(withImages, "promptMode", PM_text),
                 "prompt", <<>>)
        ELSE withImages

\* Promise.all of processFiles settles: it rejects when a reader fails
\* (the rejection is logged), else the callback runs.
filesRead(i) ==
    /\ i \in 1..Len(adds)
    /\ state' = IF \E k \in 1..Len(adds[i].files) : ~adds[i].files[k].readable
                THEN state
                ELSE FilesRead(state, adds[i])
    /\ adds' = RemoveAt(adds, i)
    /\ log' = [log EXCEPT !.added = @ + 1]
    /\ UNCHANGED <<rev, describes, clock, gens, batches, refs, reads, codec>>

(***************************************************************************)
(* JSON.stringify of a parsed value, compact or with an indent of 2        *)
(***************************************************************************)
LitText(name) ==
    CASE name = "true" -> LIT_true
      [] name = "false" -> LIT_false
      [] OTHER -> LIT_null

Indent(depth) ==
    [k \in 1..(2 * depth) |-> " "]

\* The texts of parts one after the other, sep between two of them.
RECURSIVE JoinParts(_, _)
JoinParts(parts, sep) ==
    IF parts = <<>> THEN <<>>
    ELSE IF Len(parts) = 1 THEN parts[1]
    ELSE parts[1] \o sep \o JoinParts(Tail(parts), sep)

\* JSON.stringify(value, null, 2) if pretty, else JSON.stringify(value);
\* depth is the nesting depth of value.
RECURSIVE Stringify(_, _, _)
Stringify(value, pretty, depth) ==
    LET nl(d) == IF pretty THEN <<"\n">> \o Indent(d) ELSE <<>>
        colon == IF pretty THEN <<":", " ">> ELSE <<":">>
        items == [k \in 1..Len(value[2]) |->
                     Stringify(value[2][k], pretty, depth + 1)]
        members == [k \in 1..Len(value[2]) |->
                       QuoteString(value[2][k][1]) \o colon
                       \o Stringify(value[2][k][2], pretty, depth + 1)]
    IN  CASE value[1] = "str" -> QuoteString(value[2])
          [] value[1] = "num" -> value[2]
          [] value[1] = "lit" -> LitText(value[2])
          [] value[1] = "arr" ->
                IF value[2] = <<>> THEN <<"[", "]">>
                ELSE <<"[">> \o nl(depth + 1)
                     \o JoinParts(items, <<",">> \o nl(depth + 1))
                     \o nl(depth) \o <<"]">>
          [] OTHER ->
                IF value[2] = <<>> THEN <<"{", "}">>
                ELSE <<"{">> \o nl(depth + 1)
                     \o JoinParts(members, <<",">> \o nl(depth + 1))
                     \o nl(depth) \o <<"}">>

\* Whether a text starts with '[' and ends with ']'.
InBrackets(text) ==
    Len(text) > 0 /\ text[1] = "[" /\ text[Len(text)] = "]"

\* pretty.trim() without the brackets of an array, trimmed again.
WithoutArrayBrackets(pretty, trimmed) ==
    IF InBrackets(trimmed)
    THEN Trim(SubSeq(trimmed, 2, Len(trimmed) - 1))
    ELSE pretty

\* The display of a text that parsed: JSON.stringify(parsed, null, 2).
PrettyDisplay(pretty) ==
    WithoutArrayBrackets(pretty, Trim(pretty))

\* The display of a text, given what JSON.parse made of it.
DisplayOf(jsonString, parsed) ==
    IF ~parsed.ok THEN jsonString
    ELSE PrettyDisplay(Stringify(parsed.v, TRUE, 0))

\* formatJsonDisplay (ImageGeneratorForm.tsx, PromptExtractor.tsx): the
\* pretty form of the parsed text, without the brackets of an array; the
\* text itself when it does not parse.
formatJsonDisplay(jsonString) ==
    IF jsonString = <<>> THEN <<>>
    ELSE DisplayOf(jsonString, JSON_parse(jsonString))

(***************************************************************************)
(* The prompt editors of the form.  The earlier revision of the form has   *)
(* one text area; the later one has, in structured mode, a builder with a  *)
(* field for the prompt, one for the negative prompt and one for the style.*)
(***************************************************************************)
\* displayPrompt of the earlier revision.
displayPrompt(s) ==
    IF s.promptMode = PM_json THEN formatJsonDisplay(s.prompt) ELSE s.prompt

\* handlePromptTextAreaChange of the earlier revision of the form.
FormTextAreaChange(s, newValue) ==
    LET isImagen   == s.model = HIGH_QUALITY_MODEL
        finalValue == IF s.promptMode = PM_json /\ ~isImagen
                      THEN <<"[">> \o newValue \o <<"]">>
                      ELSE newValue
    IN  SET_FORM_FIELD(s, "prompt", finalValue)

UpperLetters ==
    <<"A", "B", "C", "D", "E", "F", "G", "H", "I", "J", "K", "L", "M",
      "N", "O", "P", "Q", "R", "S", "T", "U", "V", "W", "X", "Y", "Z">>

LowerLetters ==
    <<"a", "b", "c", "d", "e", "f", "g", "h", "i", "j", "k", "l", "m",
      "n", "o", "p", "q", "r", "s", "t", "u", "v", "w", "x", "y", "z">>

toLowerCase(str) ==
    [k \in 1..Len(str) |->
        IF \E n \in 1..26 : UpperLetters[n] = str[k]
        THEN LowerLetters[CHOOSE n \in 1..26 : UpperLetters[n] = str[k]]
        ELSE str[k]]

K_text ==
    <<"t", "e", "x", "t">>

K_control ==
    <<"c", "o", "n", "t", "r", "o", "l">>

K_style ==
    <<"s", "t", "y", "l", "e">>

K_creativeStrength ==
    <<"c", "r", "e", "a", "t", "i", "v", "e", "S", "t", "r", "e", "n", "g",
      "t", "h">>

NEGATIVE_PROMPT ==
    <<"N", "e", "g", "a", "t", "i", "v", "e", " ", "p", "r", "o", "m", "p",
      "t", ":">>

\* What a callback of parts.find answers for a part: "yes", "no", or
\* "throw" when reading the property raises a TypeError.
PartTest(p, kind) ==
    IF p[1] = "lit" /\ p[2] = "null" THEN "throw"
    ELSE IF kind = "control"
    THEN LET control == GetProp(p, K_control)
         IN  IF Truthy(control) /\ Truthy(GetProp(Val(control), K_style))
             THEN "yes" ELSE "no"
    ELSE LET text == GetProp(p, K_text)
         IN  IF ~Truthy(text) THEN "no"
             ELSE IF Val(text)[1] # "str" THEN "throw"
             ELSE IF IsPrefix(toLowerCase(NEGATIVE_PROMPT),
                              toLowerCase(Val(text)[2]))
                     = (kind = "negative")
             THEN "yes" ELSE "no"

\* parts.find from index k on: the index of the first match, 0 when there
\* is none, -1 when a callback throws.
RECURSIVE FindPart(_, _, _)
FindPart(parts, k, kind) ==
    IF k > Len(parts) THEN 0
    ELSE LET t == PartTest(parts[k], kind)
         IN  IF t = "throw" THEN -1
             ELSE IF t = "yes" THEN k
             ELSE FindPart(parts, k + 1, kind)

\* prompt.replace(/^\["|"\]$/g, '')
StripQuotedBrackets(prompt) ==
    LET a == IF IsPrefix(<<"[", "\"">>, prompt)
             THEN SubSeq(prompt, 3, Len(prompt)) ELSE prompt
    IN  IF Len(a) >= 2 /\ SubSeq(a, Len(a) - 1, Len(a)) = <<"\"", "]">>
        THEN SubSeq(a, 1, Len(a) - 2) ELSE a

\* The string a builder field shows for a value read from a part.
FieldString(opt) ==
    IF ~Truthy(opt) THEN <<>>
    ELSE IF Val(opt)[1] = "str" THEN Val(opt)[2]
    ELSE NonString

\* The fields read from the parts found: t, n and c are the indices of the
\* text part, the negative part and the control part (0: none).
FieldsOfParts(parts, t, n, c) ==
    [positivePrompt |->
         IF t = 0 THEN <<>>
         ELSE FieldString(GetProp(parts[t], K_text)),
     negativePrompt |->
         IF n = 0 THEN <<>>
         ELSE TrimLeft(SubSeq(Val(GetProp(parts[n], K_text))[2],
                              Len(NEGATIVE_PROMPT) + 1,
                              Len(Val(GetProp(parts[n], K_text))[2]))),
     style |->
         IF c = 0 THEN <<>>
         ELSE FieldString(GetProp(Val(GetProp(parts[c], K_control)),
                                  K_style))]

\* The fields when the three searches have ended; a search that threw
\* (-1) takes the catch block.
FieldsFound(parts, t, n, c, fallback) ==
    IF t = -1 \/ n = -1 \/ c = -1 THEN fallback
    ELSE FieldsOfParts(parts, t, n, c)

\* The fields of a parsed array of parts.
FieldsOfArray(parts, fallback) ==
    FieldsFound(parts, FindPart(parts, 1, "text"),
                FindPart(parts, 1, "negative"),
                FindPart(parts, 1, "control"), fallback)

\* The fields, given what JSON.parse made of the prompt.
FieldsOfParsed(parsed, fallback) ==
    IF ~parsed.ok \/ parsed.v[1] # "arr" THEN fallback
    ELSE FieldsOfArray(parsed.v[2], fallback)

\* positivePrompt, negativePrompt and style of the builder (useMemo).
BuilderFields(s) ==
    IF ~(s.model # HIGH_QUALITY_MODEL /\ s.promptMode = PM_json)
    THEN [positivePrompt |-> s.prompt, negativePrompt |-> <<>>,
          style |-> <<>>]
    ELSE FieldsOfParsed(
             JSON_parse(IF s.prompt = <<>> THEN <<"[", "]">> ELSE s.prompt),
             [positivePrompt |-> StripQuotedBrackets(s.prompt),
              negativePrompt |-> <<>>, style |-> <<>>])

\* A part { text }.
TextPartValue(text) ==
    <<"obj", << <<K_text, <<"str", text>> >> >> >>

\* The parts handleJsonFieldChange builds from the trimmed fields.
NewParts(positive, negative, style) ==
    (IF positive # <<>> THEN <<TextPartValue(positive)>> ELSE <<>>)
    \o (IF negative # <<>>
        THEN <<TextPartValue(NEGATIVE_PROMPT \o <<" ">> \o negative)>>
        ELSE <<>>)
    \o (IF style # <<>>
        THEN << <<"obj", << <<K_control,
                  <<"obj", << <<K_style, <<"str", style>> >> >> >> >> >> >> >>
        ELSE <<>>)

\* handleJsonFieldChange, given the fields the builder holds.
JsonFieldChanged(s, field, value, fields) ==
    SET_FORM_FIELD(s, "prompt",
        Stringify(<<"arr",
                    NewParts(
                      Trim(IF field = "positive" THEN value
                           ELSE fields.positivePrompt),
                      Trim(IF field = "negative" THEN value
                           ELSE fields.negativePrompt),
                      Trim(IF field = "style" THEN value
                           ELSE fields.style))>>,
                  FALSE, 0))

\* handleJsonFieldChange of the later revision of the form.
handleJsonFieldChange(s, field, value) ==
    JsonFieldChanged(s, field, value, BuilderFields(s))

\* The editor in use stores `value` typed into its field: the text area of
\* the earlier revision; the builder in structured mode, else the text area
\* (onPromptChange), of the later one.
FormEdit(s, field, value) ==
    IF rev = "App.tsx" THEN FormTextAreaChange(s, value)
    ELSE IF s.model # HIGH_QUALITY_MODEL /\ s.promptMode = PM_json
    THEN handleJsonFieldChange(s, field, value)
    ELSE SET_FORM_FIELD(s, "prompt", value)

\* The field of the builder with that name.
FieldNamed(fields, field) ==
    IF field = "positive" THEN fields.positivePrompt
    ELSE IF field = "negative" THEN fields.negativePrompt
    ELSE fields.style

\* What the field of the editor in use shows.
FormShows(s, field) ==
    IF rev = "App.tsx" THEN displayPrompt(s)
    ELSE IF ~(s.model # HIGH_QUALITY_MODEL /\ s.promptMode = PM_json)
    THEN s.prompt
    ELSE FieldNamed(BuilderFields(s), field)

BuilderFieldNames ==
    {"positive", "negative", "style"}

\* What the user may type into a field of the form.
FormEditTexts ==
    {<<>>, <<"h", "i">>}

\* The user changes a field of the form to a new content.
TypeFormPrompt ==
    /\ log.edits < MaxEdits
    /\ \E field \in BuilderFieldNames, value \in FormEditTexts :
          /\ value # FormShows(state, field)
          /\ state' = FormEdit(state, field, value)
    /\ log' = [log EXCEPT !.edits = @ + 1]
    /\ UNCHANGED <<rev, describes, adds, clock, gens, batches, refs, reads, codec>>

\* A no-op edit: the user types into a field and undoes it, so the change
\* handler last runs with the content the field showed.
RetypeFormPrompt ==
    /\ log.edits < MaxEdits
    /\ \E field \in BuilderFieldNames :
          state' = FormEdit(state, field, FormShows(state, field))
    /\ log' = [log EXCEPT !.edits = @ + 1]
    /\ UNCHANGED <<rev, describes, adds, clock, gens, batches, refs, reads, codec>>

\* A part { text } and a part { control } of a structured prompt.
TextPart(text) ==
    <<"{">> \o QuoteString(K_text) \o <<":">> \o QuoteString(text) \o <<"}">>

ControlPart(members) ==
    <<"{">> \o QuoteString(K_control) \o <<":", "{">> \o members
    \o <<"}", "}">>

StyleMember ==
    QuoteString(K_style) \o <<":">> \o QuoteString(<<"s">>)

StrengthMember ==
    QuoteString(K_creativeStrength) \o <<":">> \o QuoteString(<<"H">>)

\* Structured prompts: parts arrays of text, negative-prompt and control
\* parts.
StructuredPrompts ==
    {<<"[", "]">>,
     <<"[">> \o TextPart(<<"a">>) \o <<"]">>,
     <<"[">> \o TextPart(<<"a">>) \o <<",">>
             \o TextPart(NEGATIVE_PROMPT \o <<" ", "n">>) \o <<",">>
             \o ControlPart(StyleMember) \o <<"]">>,
     <<"[">> \o TextPart(<<"a">>) \o <<",">>
             \o ControlPart(StyleMember \o <<",">> \o StrengthMember)
             \o <<"]">>}

\* The prompts the form may hold when the application starts: the stored
\* prompt of a session in freeform mode, of one in structured mode.
FormPromptTexts(promptMode) ==
    IF promptMode = PM_json THEN StructuredPrompts \cup {<<"[", "a">>}
    ELSE {<<"a">>, <<>>}

\* What the persisted state may hold when the form is opened: rev names
\* the revision of App and of the form.
InitForm ==
    /\ \E model \in ImageModels, promptMode \in {PM_text, PM_json},
          generationHistory \in {<<>>, <<PersistedItem>>} :
        \E prompt \in FormPromptTexts(promptMode) :
          /\ model = HIGH_QUALITY_MODEL => promptMode = PM_text
          /\ state = [initialState EXCEPT
                        !.model = model,
                        !.promptMode = promptMode,
                        !.prompt = prompt,
                        !.generationHistory = generationHistory]
    /\ rev \in {"App.tsx", "part_010"}
    /\ clock = 1
    /\ gens = <<>>
    /\ batches = <<>>
    /\ refs = <<>>
    /\ reads = <<>>
    /\ codec = NoCodec
    /\ describes = 0
    /\ adds = <<>>
    /\ log = initialLog

ClickModel ==
    \E model \in ImageModels : SetModel(model)

ClickPromptMode ==
    \E promptMode \in {PM_text, PM_json} : SetPromptMode(promptMode)

DropFiles ==
    \E files \in FileLists : processFiles(files)

FilesSettle ==
    \E i \in 1..Len(adds) : filesRead(i)

NextForm ==
    \/ ClickModel
    \/ ClickPromptMode
    \/ DropFiles
    \/ FilesSettle
    \/ TypeFormPrompt
    \/ RetypeFormPrompt
    \/ ClickHistoryItem

SpecForm ==
    InitForm /\ [][NextForm]_vars

(***************************************************************************)
(* Grounding (handleGenerate with useWebSearch): the texts the stream of   *)
(* generateGroundedPromptStream yields are appended as they arrive; the    *)
(* image service is called when the stream has ended.                      *)
(***************************************************************************)
\* Chunks one grounding stream delivers at most.
MaxChunks ==
    2

\* chunk.text of a chunk of the response stream; the generator yields the
\* non-empty ones only.
ChunkTexts ==
    {<<>>, <<"g">>, <<"h", " ">>}

\* A variant of the accumulation that keeps the last text only.
AccumulateLastOnly(groundedPrompt, chunk) ==
    chunk

\* groundedPrompt += chunk
Accumulate(groundedPrompt, chunk) ==
    groundedPrompt \o chunk

\* The prompt handed to generateImagesFromPrompt (and to
\* summarizePromptForFilename in part_010).
finalPromptForApi(task) ==
    IF task.useWebSearch THEN task.groundedPrompt ELSE task.currentPrompt

\* The response stream delivers one more chunk.
groundingChunk(i, text) ==
    LET task == gens[i]
    IN  /\ task.pc = "grounding"
        /\ Len(task.chunks) < MaxChunks
        /\ gens' = [gens EXCEPT ![i] =
              [task EXCEPT !.chunks = Append(@, text),
                           !.groundedPrompt =
                               IF text # <<>> THEN Accumulate(@, text) ELSE @]]
        /\ UNCHANGED <<state, rev, clock, batches, refs, reads, codec,
                       describes, adds, log>>

\* The stream ends: dispatch SET_ERROR null, and the image service is next.
groundingEnds(i) ==
    LET task == gens[i]
    IN  /\ task.pc = "grounding"
        /\ gens' = [gens EXCEPT ![i] = [task EXCEPT !.pc = "generating"]]
        /\ state' = SET_ERROR(state, Null)
        /\ UNCHANGED <<rev, clock, batches, refs, reads, codec, describes,
                       adds, log>>

\* The message of the error generateGroundedPromptStream throws.
GroundingFailureMessage ==
    "Failed to generate grounded prompt: An unknown error occurred."

\* The stream fails: the catch block of handleGenerate.
groundingFails(i) ==
    LET task == gens[i]
    IN  /\ task.pc = "grounding"
        /\ gens' = RemoveAt(gens, i)
        /\ state' = GenerationFailed(state, GroundingFailureMessage)
        /\ UNCHANGED <<rev, clock, batches, refs, reads, codec, describes,
                       adds, log>>

\* The switch 'Ground with Web Search' of the form.
ToggleWebSearch ==
    /\ log.clicks < MaxClicks /\ Ops < MaxOps
    /\ state' = SET_FORM_FIELD(state, "useWebSearch", ~state.useWebSearch)
    /\ log' = [log EXCEPT !.clicks = @ + 1]
    /\ UNCHANGED <<rev, clock, gens, batches, refs, reads, codec, describes,
                   adds>>

\* What the prompt box may hold when the form is submitted.
SubmittedPrompts(promptMode) ==
    IF promptMode = PM_json
    THEN {<<"[", "a">>, <<>>, <<"[", "\"", "a", "\"", "]">>}
    ELSE {<<"a">>, <<>>, <<" ">>}

InitGround ==
    /\ \E model \in ImageModels, promptMode \in {PM_text, PM_json},
          useWebSearch \in BOOLEAN :
        \E prompt \in SubmittedPrompts(promptMode) :
          /\ model = HIGH_QUALITY_MODEL => promptMode = PM_text
          /\ state = [initialState EXCEPT
                        !.model = model,
                        !.promptMode = promptMode,
                        !.prompt = prompt,
                        !.useWebSearch = useWebSearch]
    /\ rev \in {"App.tsx", "part_010"}
    /\ clock = 1
    /\ gens = <<>>
    /\ batches = <<>>
    /\ refs = <<>>
    /\ reads = <<>>
    /\ codec = NoCodec
    /\ describes = 0
    /\ adds = <<>>
    /\ log = initialLog

GroundingChunk ==
    \E i \in 1..Len(gens), text \in ChunkTexts : groundingChunk(i, text)

GroundingEnds ==
    \E i \in 1..Len(gens) : groundingEnds(i)

GroundingFails ==
    \E i \in 1..Len(gens) : groundingFails(i)

NextGround ==
    \/ handleGenerate
    \/ GroundingChunk
    \/ GroundingEnds
    \/ GroundingFails
    \/ GenerationSettles
    \/ ToggleWebSearch

SpecGround ==
    InitGround /\ [][NextGround]_vars

(***************************************************************************)
(* The generate / refine machine with the two tabs of App: the tabs are    *)
(* never disabled, and the handlers in flight go on when the view changes. *)
(***************************************************************************)
Views ==
    {"generate", "extract"}

\* A tab of App.
SwitchView(view) ==
    /\ log.clicks < MaxClicks /\ Ops < MaxOps
    /\ state' = SET_VIEW(state, view)
    /\ log' = [log EXCEPT !.clicks = @ + 1]
    /\ UNCHANGED <<rev, describes, adds, clock, gens, batches, refs, reads,
                   codec>>

ClickTab ==
    \E view \in Views : SwitchView(view)

NextView ==
    \/ Next
    \/ ClickTab

SpecView ==
    Init /\ [][NextView]_vars

\* The requests, the history and the tabs, with the clock advancing at each
\* completion and the random suffixes of a batch all different.  Each
\* completion names the rejected backend call first, the case that needs no
\* embedding, and then every combination of outcomes.
GenerationEnds ==
    \E i \in 1..Len(gens), slug \in SlugChoices :
       \/ generateSettled(i, [k \in 1..gens[i].numImages |-> "backend"],
                          slug, clock + 1)
       \/ \E outcomes \in [1..gens[i].numImages -> Outcomes] :
             generateSettled(i, outcomes, slug, clock + 1)

BatchEnds ==
    \E i \in 1..Len(batches), slug \in SlugChoices :
       \/ batchSettled(i, [k \in 1..Len(batches[i].suggestions) |-> "backend"],
                       [k \in 1..Len(batches[i].suggestions) |-> k],
                       slug, clock + 1)
       \/ \E outcomes \in [1..Len(batches[i].suggestions) -> Outcomes] :
             batchSettled(i, outcomes,
                          [k \in 1..Len(batches[i].suggestions) |-> k],
                          slug, clock + 1)

RefinementEnds ==
    \E i \in 1..Len(refs), slug \in SlugChoices :
       \/ refineSettled(i, "backend", slug)
       \/ \E outcome \in Outcomes : refineSettled(i, outcome, slug)

NextRequests ==
    \/ handleGenerate
    \/ GenerationEnds
    \/ StartBatch
    \/ BatchEnds
    \/ handleRefine
    \/ RefinementEnds
    \/ TypeRefinement
    \/ ClickThumbnail
    \/ ClickHistoryItem
    \/ ClearHistory
    \/ ClickTab

\* Every external call resolves or fails in the end: an awaited call does
\* not stay awaited forever.
SpecRequestsFair ==
    /\ Init /\ [][NextRequests]_vars
    /\ WF_vars(GenerationEnds)
    /\ WF_vars(BatchEnds)
    /\ WF_vars(RefinementEnds)

(***************************************************************************)
(* Properties of the codec and of the extractor (SpecCodec)                *)
(***************************************************************************)
\* The data URL whose extraction the extractor shows.
Shown ==
    Val(state.imagePreview)

\* The extractor shows a file whose EXIF block was read and holds a tag.
ShownHasTag ==
    /\ ~IsNull(state.imagePreview)
    /\ ~PiexifLoadRaises(Shown)
    /\ ~IsNull(Shown.tag)
    /\ Val(Shown.tag) # <<>>

IsJsonArrayText(text) ==
    JSON_parse(text).ok /\ JSON_parse(text).v[1] = "arr"

\* The text is a record: JSON with a non-empty model and a non-empty prompt.
IsRecordText(text) ==
    JSON_parse(text).ok /\ HasModelAndPrompt(JSON_parse(text).v)

\* C1: round trip.  For every record R with a non-empty model and prompt and
\* every decodable image, extracting from what embedding resolved with gives
\* a structured record whose fields equal R's, absent fields still absent.
C1_RoundTrip ==
    (/\ codec.phase = "extracted"
     /\ codec.image.decodable
     /\ codec.R.model # <<>>
     /\ codec.R.prompt # <<>>)
    => Val(codec.extracted) = Structured(codec.R)

\* C2: legacy tolerance (JSON array).  When the tag holds a bare JSON array,
\* extraction yields LegacyString with that text, and the file-select
\* workflow ends with extractedMetadata = {fast-edit model, that text} and
\* isPromptValid = true.
C2_LegacyJsonArray ==
    (ShownHasTag /\ IsJsonArrayText(Val(Shown.tag)))
    => /\ extractMetadataFromImage(Shown) = LegacyString(Val(Shown.tag))
       /\ state.extractedMetadata = Some(LegacyMetadata(Val(Shown.tag)))
       /\ state.isPromptValid

\* C3: found text is never discarded.  Whenever the tag holds a non-empty
\* text that is no valid record (it does not parse, or it parses but lacks a
\* non-empty model or prompt), extraction returns LegacyString with the raw
\* text, never NotFound.
C3_FoundTextNeverDiscarded ==
    (ShownHasTag /\ ~IsRecordText(Val(Shown.tag)))
    => extractMetadataFromImage(Shown) = LegacyString(Val(Shown.tag))

\* C4: legacy tolerance (plain text).  When the tag holds text that does not
\* parse as JSON, extraction yields LegacyString and the file-select workflow
\* ends with extractedMetadata = {fast-edit model, the raw text},
\* isPromptValid = false and the 'not valid JSON' message.
C4_LegacyPlainText ==
    (ShownHasTag /\ ~JSON_parse(Val(Shown.tag)).ok)
    => /\ extractMetadataFromImage(Shown) = LegacyString(Val(Shown.tag))
       /\ state.extractedMetadata = Some(LegacyMetadata(Val(Shown.tag)))
       /\ ~state.isPromptValid
       /\ state.extractionMessage =
            Some("An embedded prompt was found, but it is not valid JSON.")

\* The extractor shows the outcome for a file whose tag is plain text.
C4_Witness ==
    /\ ShownHasTag
    /\ ~JSON_parse(Val(Shown.tag)).ok
    /\ ~IsNull(state.extractedMetadata)
    /\ Val(state.extractedMetadata).prompt = <<"h", "i">>

\* The data URL of read i cannot be read as EXIF, or holds no tag.
Unreadable(i) ==
    /\ reads[i].readable
    /\ ~IsNull(reads[i].dataUrl)
    /\ \/ PiexifLoadRaises(Val(reads[i].dataUrl))
       \/ IsNull(Val(reads[i].dataUrl).tag)

\* C5: extraction never throws.  For every data URL, if reading the EXIF
\* container raises (no JPEG, corrupt segment) or the tag is absent,
\* extractMetadataFromImage returns NotFound; the step of the file-select
\* workflow that handles it ends with extractedMetadata = null and
\* isPromptValid = false, and leaves the error slot as it was.
C5_ExtractionNeverThrows ==
    [][\A i \in 1..Len(reads) :
          (Unreadable(i) /\ reads' = RemoveAt(reads, i))
          => /\ extractMetadataFromImage(Val(reads[i].dataUrl)) = NotFound
             /\ state'.imagePreview = reads[i].dataUrl
             /\ state'.extractedMetadata = Null
             /\ ~state'.isPromptValid
             /\ state'.error = state.error]_vars

\* The extractor shows the outcome for a file that is no JPEG or is corrupt.
C5_Witness ==
    /\ ~IsNull(state.imagePreview)
    /\ PiexifLoadRaises(Shown)
    /\ Shown.mime = "image/png"
    /\ IsNull(state.extractedMetadata)
    /\ ~state.isPromptValid

(***************************************************************************)
(* Properties of the generate / refine machine (Spec)                      *)
(***************************************************************************)
\* The step settles a generation of handleGenerate.
GenerationSettled ==
    Len(gens') < Len(gens)

\* The images of a history item are re-encoded JPEGs that carry the record
\* of the item or, when its text cannot be inserted, nothing.
CarriesRecordOrNothing(item) ==
    \A k \in 1..Len(item.images) :
       /\ item.images[k].mime = "image/jpeg"
       /\ \/ item.images[k].tag = Some(JSON_stringify(item.metadata))
          \/ /\ HasWide(JSON_stringify(item.metadata))
             /\ item.images[k] = PlainJpeg(k)

\* The step ends the generation as a success: one history item more, the
\* error slot as it was.
EndsAsSuccess ==
    /\ Len(state'.generationHistory) = Len(state.generationHistory) + 1
    /\ state'.error = state.error
    /\ ~state'.isLoading
    /\ CarriesRecordOrNothing(state'.generationHistory[1])

\* The step ends the generation as a failure with one of the messages.
EndsAsFailure(messages) ==
    /\ state'.generationHistory = state.generationHistory
    /\ ~state'.isLoading
    /\ \E m \in messages : state'.error = Msg(m)

\* C6 (as amended): if EXIF construction or insertion fails, the embedding
\* still resolves, with the plain JPEG, and the generation completes
\* successfully (history item added, error slot not set); only a failure of
\* the backend, a failure to decode the input image or a failure to obtain
\* the canvas context ends the generation as a failure, with no history item
\* added.
C6_EmbedFailurePolicy ==
    [][GenerationSettled
       => \/ EndsAsSuccess
          \/ EndsAsFailure({BackendFailureMessage,
                            "Failed to load image for metadata embedding.",
                            "Could not get canvas context"})]_vars

\* A generation whose record could not be inserted ended as a success; its
\* history item holds the plain JPEG.
C6_Witness ==
    /\ Len(state.generationHistory) = 1
    /\ HasWide(state.generationHistory[1].metadata.prompt)
    /\ state.generationHistory[1].images[1] = PlainJpeg(1)
    /\ IsNull(state.error)
    /\ ~state.isLoading
    /\ gens = <<>>

\* C6 (as stated): as above, but only a failure to decode the input image
\* makes the embedding reject.
C6_OnlyDecodeRejects ==
    [][GenerationSettled
       => \/ EndsAsSuccess
          \/ EndsAsFailure({BackendFailureMessage,
                            "Failed to load image for metadata embedding."})]_vars

\* No two items of the history share an id.
UniqueIds ==
    \A j, k \in 1..Len(state.generationHistory) :
       j # k => state.generationHistory[j].id # state.generationHistory[k].id

\* C7: refinement provenance growth.  A refinement only appends a block to
\* the prompt of the record it refines: in a history whose ids are unique,
\* the prompt of every history item before a refinement settles is a prefix
\* of its prompt after, so no earlier block is lost.
C7_RefinementOnlyAppends ==
    [][(Len(refs') < Len(refs) /\ UniqueIds)
       => /\ Len(state'.generationHistory) = Len(state.generationHistory)
          /\ \A j \in 1..Len(state.generationHistory) :
                IsPrefix(state.generationHistory[j].metadata.prompt,
                         state'.generationHistory[j].metadata.prompt)]_vars

\* C8: cross-model refinement reattribution.  The record a refinement writes
\* into the history names the fast-edit model, never the high-quality model.
C8_RefinedRecordIsFastEdit ==
    [][Len(refs') < Len(refs)
       => \A j \in 1..Len(state'.generationHistory) :
             (/\ j <= Len(state.generationHistory)
              /\ state'.generationHistory[j] # state.generationHistory[j])
             => state'.generationHistory[j].metadata.model = FAST_EDIT_MODEL]_vars

\* C9: no second concurrent invocation.  While isLoading is true no further
\* generation or batch is started, and while isRefining is true no further
\* refinement is started.
C9_NoSecondInvocation ==
    [][/\ state.isLoading
          => Len(gens') + Len(batches') <= Len(gens) + Len(batches)
       /\ state.isRefining
          => Len(refs') <= Len(refs)]_vars

\* C10: batch policy, partial failure.  When a batch settles in which some
\* backend calls failed and at least one suggestion gave its image, the batch
\* succeeds: the history gains one item per successful suggestion,
\* generatedImages holds their images, activeBatchHistoryIds their ids, and
\* the error slot is not set.
C10_BatchPartialFailure ==
    [][(/\ Len(batches') < Len(batches)
        /\ log'.lastBatch.succeeded >= 1
        /\ log'.lastBatch.failed >= 1
        /\ log'.lastBatch.rejected = 0)
       => /\ Len(state'.generationHistory) =
                Len(state.generationHistory) + log'.lastBatch.succeeded
          /\ ~IsNull(state'.generatedImages)
          /\ Len(Val(state'.generatedImages)) = log'.lastBatch.succeeded
          /\ ~IsNull(state'.activeBatchHistoryIds)
          /\ Val(state'.activeBatchHistoryIds) =
                [k \in 1..log'.lastBatch.succeeded |->
                    state'.generationHistory[k].id]
          /\ state'.error = state.error
          /\ ~state'.isLoading]_vars

\* The step settles a batch of handleGenerateAllSuggestions.
BatchSettled ==
    Len(batches') < Len(batches)

\* In the batch the step settles, the backend call of every suggestion
\* failed.
EveryBackendCallFailed ==
    /\ log'.lastBatch.failed >= 1
    /\ log'.lastBatch.succeeded = 0
    /\ log'.lastBatch.rejected = 0

SettlesWith(i, outcomes) ==
    \E slug \in SlugChoices, now \in {clock, clock + 1} :
       generateSettled(i, outcomes, slug, now)

\* Outcomes of K calls of which at least one failed at the backend.
WithAFailedCall(K) ==
    {outcomes \in [1..K -> Outcomes] : \E k \in 1..K : outcomes[k] = "backend"}

C13_SelectionsExclusive ==
    IsNull(state.activeHistoryId) \/ IsNull(state.activeBatchHistoryIds)

\* The step settles refinement i of handleRefine, its call of refineImage
\* failing.
RefinementFails(i) ==
    \E slug \in SlugChoices : refineSettled(i, "backend", slug)

\* External calls in flight.
InFlight ==
    Len(gens) + Len(batches) + Len(refs)

\* The step reports the failure and starts no call again.
ReportsFailure ==
    /\ state'.error = Msg(BackendFailureMessage)
    /\ InFlight' = InFlight - 1

BeginsExternalWork ==
    \/ Len(gens') > Len(gens)
    \/ Len(batches') > Len(batches)
    \/ Len(refs') > Len(refs)
    \/ Len(reads') > Len(reads)
    \/ describes' > describes

\* C15: every user-triggered workflow action (generate, batch generate,
\* refine, selecting a file for extraction, describe image) sets the error
\* slot to null before it begins its own external work.
C15_NewActionClearsError ==
    [][BeginsExternalWork => IsNull(state'.error)]_vars

\* A step that writes a message to the error slot.
WritesMessage ==
    state'.error # state.error /\ ~IsNull(state'.error)

\* C16: whenever an action writes a message to the error slot, the slot
\* afterwards holds exactly that one message: the message replaces what
\* the slot held and is never appended to it.
C16_OneMessage ==
    [][WritesMessage => Len(Val(state'.error)) = 1]_vars

\* What the validation rule says of a record: a structured prompt of the
\* fast-edit model must parse as JSON; any other prompt must be non-empty
\* once trimmed.
RuleSaysValid(metadata) ==
    IF metadata.promptMode = Some(PM_json) /\ metadata.model = FAST_EDIT_MODEL
    THEN JSON_parse(metadata.prompt).ok
    ELSE Len(Trim(metadata.prompt)) > 0

\* The status messages that report a valid prompt.
ValidMessages ==
    {Some("The edited JSON prompt is valid."),
     Some("The edited prompt is valid.")}

\* A step of the edit toggle that leaves the editing view; it dispatches
\* VALIDATE_EDITED_PROMPT.
LeavesEditing ==
    onToggleEdit /\ state.isEditingPrompt

\* C19: VALIDATE_EDITED_PROMPT sets isPromptValid to true exactly when the
\* rule says so (structured prompt of the fast-edit model: it parses as
\* JSON; otherwise: the trimmed prompt is non-empty), its status message
\* tells valid from invalid, and without an extracted record it changes
\* nothing.
C19_ValidationRule ==
    [][LeavesEditing =>
          IF IsNull(state.extractedMetadata)
          THEN state' = SET_IS_EDITING_PROMPT(state, FALSE)
          ELSE /\ state'.isPromptValid
                     = RuleSaysValid(Val(state.extractedMetadata))
               /\ (state'.extractionMessage \in ValidMessages)
                     = state'.isPromptValid]_vars

\* C20: whenever the edit toggle takes isEditingPrompt from true to false,
\* the record as edited is validated first: the record is kept, and in the
\* resulting state isPromptValid and the status message are what
\* validation gives for the extractedMetadata of that state.
C20_LeavingEditRevalidates ==
    [][(onToggleEdit /\ state.isEditingPrompt) =>
          /\ ~state'.isEditingPrompt
          /\ state'.extractedMetadata = state.extractedMetadata
          /\ state'.isPromptValid
                = VALIDATE_EDITED_PROMPT(state').isPromptValid
          /\ state'.extractionMessage
                = VALIDATE_EDITED_PROMPT(state').extractionMessage]_vars

\* The user opened an image with a valid structured prompt, typed text that
\* is no JSON, and left the editing view: the prompt is reported invalid.
C20_Witness ==
    /\ rev = "App.tsx"
    /\ ~log.bypassed
    /\ log.edits = MaxEdits
    /\ ~state.isEditingPrompt
    /\ ~IsNull(state.extractedMetadata)
    /\ Val(state.extractedMetadata).promptMode = Some(PM_json)
    /\ Val(state.extractedMetadata).prompt = <<"[", "h", "i", "]">>
    /\ ~state.isPromptValid
    /\ state.extractionMessage = Some("The edited prompt is not valid JSON.")

\* C21: 'use this metadata' copies the extracted record into the generation
\* form only if the record as held in extractedMetadata at that moment,
\* hand edits included, passes the validation rule; a record whose prompt
\* fails validation is never transferred.
C21_OnlyValidRecordsTransferred ==
    [][(rev = "App.tsx" /\ ~log.bypassed
            /\ log'.transfers > log.transfers) =>
          /\ ~IsNull(state.extractedMetadata)
          /\ RuleSaysValid(Val(state.extractedMetadata))]_vars


(***************************************************************************)
(* Properties of the generation form (SpecForm)                            *)
(***************************************************************************)
\* C22: whenever the form's model becomes the high-quality model, the state
\* that results has referenceImages empty and promptMode = 'text', whatever
\* they were before.
C22_ModelSwitchSideEffects ==
    [][(~log.bypassed /\ state.model # HIGH_QUALITY_MODEL
            /\ state'.model = HIGH_QUALITY_MODEL) =>
          /\ state'.referenceImages = <<>>
          /\ state'.promptMode = PM_text]_vars

\* A step in which the callback of the i-th processFiles call adds at least
\* one image it has read.
AddsImages(i) ==
    /\ filesRead(i)
    /\ adds[i].files # <<>>
    /\ \A k \in 1..Len(adds[i].files) : adds[i].files[k].readable

\* C23: when reference images are added while promptMode is 'json' and the
\* model is the fast-edit model, the resulting state has the images
\* appended to referenceImages, promptMode = 'text' and prompt = ''; when
\* they are added in freeform mode, prompt and promptMode are unchanged.
C23_AddingReferenceImages ==
    [][\A i \in 1..Len(adds) :
          (~log.bypassed /\ AddsImages(i)) =>
             /\ state'.referenceImages
                   = state.referenceImages \o ImageDataUrls(adds[i].files)
             /\ (state.promptMode = PM_json /\ state.model = FAST_EDIT_MODEL)
                   => (state'.promptMode = PM_text /\ state'.prompt = <<>>)
             /\ state.promptMode = PM_text
                   => (state'.promptMode = PM_text
                          /\ state'.prompt = state.prompt)]_vars

\* The stored prompt is a JSON array whose parts are objects.
IsPartsArray(prompt) ==
    LET parsed == JSON_parse(prompt)
    IN  /\ parsed.ok
        /\ parsed.v[1] = "arr"
        /\ \A k \in 1..Len(parsed.v[2]) : parsed.v[2][k][1] = "obj"

\* C24: in structured mode, rendering the stored prompt (a JSON array of
\* text, negative-prompt and control parts) for editing and storing the
\* rendered content again without change yields a stored prompt that parses
\* to the same JSON array as before.
C24_StructuredRoundTrip ==
    [][(RetypeFormPrompt /\ state.promptMode = PM_json
            /\ state.model = FAST_EDIT_MODEL
            /\ IsPartsArray(state.prompt)) =>
          /\ JSON_parse(state'.prompt).ok
          /\ JSON_parse(state'.prompt).v = JSON_parse(state.prompt).v]_vars

\* The extractor shows the prompt without its enclosing brackets: the
\* prompt parses as a JSON array.
ShownStripped(prompt) ==
    /\ prompt # <<>>
    /\ JSON_parse(prompt).ok
    /\ InBrackets(Trim(Stringify(JSON_parse(prompt).v, TRUE, 0)))

\* C25: an edit of an extracted prompt that is shown with its enclosing
\* brackets stripped is stored as '[' + edited text + ']'; an edit of a
\* prompt that is shown unstripped is stored exactly as typed, with no
\* brackets added.
C25_RewrapOnEdit ==
    [][\A newValue \in EditTexts :
          (~log'.bypassed /\ handlePromptTextAreaChange(newValue)) =>
             Val(state'.extractedMetadata).prompt
                = IF ShownStripped(Val(state.extractedMetadata).prompt)
                  THEN <<"[">> \o newValue \o <<"]">>
                  ELSE newValue]_vars

(***************************************************************************)
(* Properties of handleGenerate with grounding (SpecGround)                *)
(***************************************************************************)
\* A request the form should not send: the prompt is empty after trimming,
\* or the form is in structured mode and the prompt is not valid JSON.
InvalidRequest(s) ==
    \/ Trim(s.prompt) = <<>>
    \/ s.promptMode = PM_json /\ ~JSON_parse(s.prompt).ok

\* C26: a generation request whose prompt is empty after trimming, or is
\* not valid JSON in structured mode, is rejected before any external call
\* is issued: the submit leaves no call awaited, an error message is
\* shown, isLoading is false and generationHistory is unchanged.
C26_ValidationPrecedesExternalCalls ==
    [][(handleGenerate /\ ~log'.bypassed /\ InvalidRequest(state)) =>
          /\ gens' = gens
          /\ ~IsNull(state'.error)
          /\ ~state'.isLoading
          /\ state'.generationHistory = state.generationHistory]_vars

\* The texts of a sequence of chunks, one after the other.
RECURSIVE Concat(_)
Concat(chunks) ==
    IF chunks = <<>> THEN <<>> ELSE Head(chunks) \o Concat(Tail(chunks))

\* The i-th awaited generation settles and adds an item to the history.
GenerationSucceeds(i) ==
    /\ gens[i].pc = "generating"
    /\ gens' = RemoveAt(gens, i)
    /\ Len(state'.generationHistory) = Len(state.generationHistory) + 1

\* C27: the record a generation creates has, when grounding was enabled
\* at the request, prompt equal to the concatenation in arrival order of
\* all chunks of the grounding stream (the text sent to the image backend)
\* and originalPrompt equal to the user's input; when grounding was
\* disabled, prompt is the user's input and originalPrompt is absent.
C27_GroundingDivergence ==
    [][\A i \in 1..Len(gens) :
          GenerationSucceeds(i) =>
             LET task == gens[i]
                 record == state'.generationHistory[1].metadata
             IN  IF task.useWebSearch
                 THEN /\ record.prompt = Concat(task.chunks)
                      /\ finalPromptForApi(task) = Concat(task.chunks)
                      /\ record.originalPrompt = Some(task.currentPrompt)
                 ELSE /\ record.prompt = task.currentPrompt
                      /\ record.originalPrompt = Null]_vars

\* A grounded generation of the prompt "a" whose stream delivered "g" and
\* then "h " has made its record.
C27_Witness ==
    /\ Len(state.generationHistory) > 0
    /\ state.generationHistory[1].metadata.prompt = <<"g", "h", " ">>
    /\ state.generationHistory[1].metadata.originalPrompt = Some(<<"a">>)

(***************************************************************************)
(* Properties of the history (Spec)                                        *)
(***************************************************************************)
\* The history after the i-th awaited refinement has succeeded differs from
\* the history before in the item the refinement was asked for only, and
\* in that item in the refined image and the record only.
OnlyTheActiveItemChanges(i, slug) ==
    LET task == refs[i]
        before == state.generationHistory
        after == state'.generationHistory
        newMetadata == RefinedMetadata(task, slug)
        refined == Val(embedMetadataInImage(Base64Image(RefinedPx, "ok"),
                                            newMetadata, TRUE).url)
        index == IF task.isBatch THEN 1 ELSE task.selectedImageIndex + 1
    IN  /\ Len(after) = Len(before)
        /\ \A k \in 1..Len(before) :
              /\ after[k].id = before[k].id
              /\ IF before[k].id = task.activeHistoryItem.id
                 THEN /\ after[k].metadata = newMetadata
                      /\ Len(after[k].images) = Len(before[k].images)
                      /\ \A m \in 1..Len(before[k].images) :
                            after[k].images[m] =
                               IF m = index THEN refined
                               ELSE before[k].images[m]
                 ELSE after[k] = before[k]

\* C28: a successful refinement modifies exactly one history item, the
\* active one: length and order of generationHistory and the ids are
\* unchanged; in that item only the image at the selected index is
\* replaced by the refined image, its other images are kept, and its
\* metadata becomes the new record; every other item is unchanged.
C28_SelectiveReplacement ==
    [][\A i \in 1..Len(refs), slug \in SlugChoices :
          (refineSettled(i, "ok", slug) /\ ~log.bypassed /\ UniqueIds)
             => OnlyTheActiveItemChanges(i, slug)]_vars

\* The i-th awaited batch settles and adds its items to the history.
BatchSucceeds(i) ==
    /\ batches' = RemoveAt(batches, i)
    /\ Len(state'.generationHistory)
          = Len(state.generationHistory) + Len(batches[i].suggestions)

C30_HistoryIdsUnique ==
    \A j, k \in 1..Len(state.generationHistory) :
       (state.generationHistory[j].id = state.generationHistory[k].id)
          => j = k

(***************************************************************************)
(* Properties of the history with the tabs (SpecView)                      *)
(***************************************************************************)
\* The ids of the items of a history, in its order.
Ids(history) ==
    [k \in 1..Len(history) |-> history[k].id]

\* Whether the sequence a is the end of the sequence b.
IsSuffix(a, b) ==
    /\ Len(a) <= Len(b)
    /\ SubSeq(b, Len(b) - Len(a) + 1, Len(b)) = a

\* C31: history items live until an explicit clear.  Every step other
\* than the clearing of the history (a generation, a batch, a refinement,
\* a selection, a change of view) keeps the ids already in
\* generationHistory, in their order, behind whatever it adds; the
\* clearing empties the history and clears the results and both selections.
C31_ItemsLiveUntilClear ==
    [][IF ClearHistory
       THEN /\ state'.generationHistory = <<>>
            /\ IsNull(state'.generatedImages)
            /\ IsNull(state'.activeHistoryId)
            /\ IsNull(state'.activeBatchHistoryIds)
       ELSE IsSuffix(Ids(state.generationHistory),
                     Ids(state'.generationHistory))]_vars

\* The item a generation put in front of a persisted one has been refined
\* and the view has changed since: both items are still there.
C31_Witness ==
    /\ Len(state.generationHistory) = 2
    /\ state.generationHistory[2].id = PersistedItem.id
    /\ log.refinements > 0 /\ refs = <<>>
    /\ Len(state.generationHistory[1].metadata.prompt) > Len(state.prompt)
    /\ state.view = "extract"

\* The active id of a state names an item of its history.
Resolves(s) ==
    \E k \in 1..Len(s.generationHistory) :
       Some(s.generationHistory[k].id) = ActiveId(s)

NotFoundMessage ==
    Msg("Could not find the active history item to refine.")

\* handleRefine runs with results and an instruction while the active id
\* names no item.
RefineWithStaleId ==
    /\ handleRefine
    /\ ~IsNull(state.generatedImages)
    /\ Trim(state.refinementPrompt) # <<>>
    /\ ~Resolves(state)

\* C32: a stale selection is 'not found', not a crash.  When refine is
\* invoked and the active id resolves to no item of generationHistory,
\* the error slot gets the not-found message, isRefining is left as it
\* was (false), no external call is started, and generatedImages and
\* generationHistory are unchanged.
C32_StaleSelectionNotFound ==
    [][RefineWithStaleId =>
          /\ state'.error = NotFoundMessage
          /\ state'.isRefining = state.isRefining
          /\ (~log.bypassed => ~state'.isRefining)
          /\ refs' = refs
          /\ state'.generatedImages = state.generatedImages
          /\ state'.generationHistory = state.generationHistory]_vars

\* The not-found message is shown over results whose id names no item.
C32_Witness ==
    /\ state.error = NotFoundMessage
    /\ ~IsNull(state.generatedImages)
    /\ ~Resolves(state)
    /\ ~state.isRefining

\* C33: aspectRatio only for the high-quality model.  In every reachable
\* state every record of generationHistory that has an aspectRatio names
\* the high-quality model; a record of the fast-edit model has none.
C33_AspectRatioOnlyHighQuality ==
    \A k \in 1..Len(state.generationHistory) :
       ~IsNull(state.generationHistory[k].metadata.aspectRatio)
          => state.generationHistory[k].metadata.model = HIGH_QUALITY_MODEL

\* The i-th awaited refinement succeeds and its result is where it was
\* asked for: the record of the item it was invoked on (if that item is
\* still in the history) is the refined record, no other item has changed,
\* and, the results being those of the invocation, the refined image is in
\* the slot selected then.
LandsOnItsTarget(i, slug) ==
    LET task == refs[i]
        before == state.generationHistory
        after == state'.generationHistory
        newMetadata == RefinedMetadata(task, slug)
        refined == Val(embedMetadataInImage(Base64Image(RefinedPx, "ok"),
                                            newMetadata, TRUE).url)
    IN  /\ Len(after) = Len(before)
        /\ \A k \in 1..Len(before) :
              IF before[k].id = task.activeHistoryItem.id
              THEN after[k].metadata = newMetadata
              ELSE after[k] = before[k]
        /\ state.generatedImages = task.imagesAtStart
              => At(Val(state'.generatedImages), task.selectedImageIndex)
                    = Some(refined)

\* C34: a refinement's result lands on its own target.  The refined image
\* and record are applied to the result slot and the history item that
\* were selected when the refinement was invoked, whatever was selected,
\* cleared or generated while the call was in flight; no other item is
\* overwritten by it.
C34_RefinementLandsOnTarget ==
    [][\A i \in 1..Len(refs), slug \in SlugChoices :
          (refineSettled(i, "ok", slug) /\ ~log.bypassed /\ UniqueIds)
             => LandsOnItsTarget(i, slug)]_vars

\* A request is awaited or a busy flag is up.
Busy ==
    \/ gens # <<>> \/ batches # <<>> \/ refs # <<>>
    \/ state.isLoading \/ state.isRefining

\* Nothing is awaited and no busy flag is up.
Idle ==
    /\ gens = <<>> /\ batches = <<>> /\ refs = <<>>
    /\ ~state.isLoading /\ ~state.isRefining

\* C35: started requests always finish.  Every external call resolving or
\* failing in the end, every started generation, batch generation or
\* refinement dispatches its success or its failure, also when the view
\* is switched while it is in flight, and then no busy flag is up: a busy
\* state leads to one where nothing is awaited and isLoading and
\* isRefining are false.
C35_StartedRequestsFinish ==
    Busy ~> Idle

\* A generation has dispatched its success after the view was switched to
\* the extractor: the results are there, and nothing is busy.
C35_Witness ==
    /\ state.view = "extract"
    /\ ~IsNull(state.generatedImages)
    /\ log.refinements = 0
    /\ log.generations > 0
    /\ Idle


(***************************************************************************)
(* Properties of the extractor under fair file reads (SpecReadsFair)       *)
(***************************************************************************)
Extracting ==
    state.extractionMessage = Some("Processing image...")

\* C36: after START_EXTRACTION the extraction status leaves
\* 'Processing image...' in the end: the read ends with EXTRACTION_RESULT,
\* or fails and the workflow is idle again.
C36_ExtractionLeavesExtracting ==
    Extracting ~> ~Extracting

(***************************************************************************)
(* Properties of the results and the selection (SpecView)                  *)
(***************************************************************************)
\* The items of a history that carry an id.
ItemsWithId(history, id) ==
    {k \in 1..Len(history) : history[k].id = id}

\* The results of a state are the images of an item, or of items, its
\* selection names.
ResultsMatchSelection(s) ==
    LET images == Val(s.generatedImages)
    IN  IF ~IsNull(s.activeBatchHistoryIds)
        THEN LET ids == Val(s.activeBatchHistoryIds)
             IN  /\ Len(ids) = Len(images)
                 /\ \A i \in 1..Len(ids) :
                       \E k \in ItemsWithId(s.generationHistory, ids[i]) :
                          /\ Len(s.generationHistory[k].images) > 0
                          /\ s.generationHistory[k].images[1] = images[i]
        ELSE /\ ~IsNull(s.activeHistoryId)
             /\ \E k \in ItemsWithId(s.generationHistory,
                                     Val(s.activeHistoryId)) :
                   s.generationHistory[k].images = images

\* C37: whenever generatedImages is non-null the active selection resolves
\* in generationHistory and agrees with the results, in a history whose ids
\* are unique and no disabled control having been used.
C37_ResultsMatchSelection ==
    (~IsNull(state.generatedImages) /\ ~log.bypassed /\ UniqueIds)
        => ResultsMatchSelection(state)

\* C38: whenever generatedImages is non-null,
\* 0 <= selectedImageIndex < length(generatedImages), no disabled control
\* having been used.
C38_SelectedIndexInRange ==
    (~IsNull(state.generatedImages) /\ ~log.bypassed)
        => state.selectedImageIndex + 1
              \in 1..Len(Val(state.generatedImages))

(***************************************************************************)
(* Properties of the extractor with overlapping reads (SpecExtract)        *)
(***************************************************************************)
\* The fields of the extractor that describe the selected file.
ExtractorFields(s) ==
    <<s.imagePreview, s.extractedMetadata, s.isPromptValid>>

\* reader.onload of a read that is not the newest one in flight, for a
\* file other than the newest.
StaleReadLoads ==
    \E i \in 1..(Len(reads) - 1) :
       /\ reads[i] # reads[Len(reads)]
       /\ readerOnload(i)

\* C39: a file read started for an earlier file that completes after a
\* newer file was selected does not overwrite imagePreview,
\* extractedMetadata or isPromptValid.
C39_ExtractorBelongsToLatestFile ==
    [][StaleReadLoads =>
          ExtractorFields(state') = ExtractorFields(state)]_vars

(***************************************************************************)
(* Generate, extract, use: an image a generation produced is handed to the *)
(* extractor and its record is used on the form (SpecRoundTrip)            *)
(***************************************************************************)
\* What the form may hold when the generation starts: freeform text, with
\* and without brackets around it, and a JSON array in either mode.
RoundTripPrompts ==
    {<<"a">>, <<"[", "a", "]">>, <<"[", "1", "]">>}

RoundTripForms ==
    {[model |-> FAST_EDIT_MODEL, prompt |-> p, promptMode |-> PM_text,
      aspectRatio |-> ar] : p \in RoundTripPrompts, ar \in {AR_1_1, AR_16_9}}
    \cup {[model |-> FAST_EDIT_MODEL, prompt |-> <<"[", "1", "]">>,
           promptMode |-> PM_json, aspectRatio |-> AR_1_1]}
    \cup {[model |-> HIGH_QUALITY_MODEL, prompt |-> p, promptMode |-> PM_text,
           aspectRatio |-> ar] :
             p \in RoundTripPrompts, ar \in {AR_1_1, AR_16_9}}

InitRoundTrip ==
    /\ \E form \in RoundTripForms :
          state = [initialState EXCEPT !.model = form.model,
                                       !.prompt = form.prompt,
                                       !.promptMode = form.promptMode,
                                       !.aspectRatio = form.aspectRatio]
    /\ rev \in {"App.tsx", "part_010"}
    /\ clock = 1
    /\ gens = <<>>
    /\ batches = <<>>
    /\ refs = <<>>
    /\ reads = <<>>
    /\ codec = NoCodec
    /\ describes = 0
    /\ adds = <<>>
    /\ log = initialLog

\* The user hands an image of the history, downloaded before, to the
\* extractor.
SelectGeneratedFile ==
    /\ state.view = "extract"
    /\ \E k \in 1..Len(state.generationHistory) :
          \E j \in 1..Len(state.generationHistory[k].images) :
             handleFileSelect(FileOf(state.generationHistory[k].images[j]))

NextRoundTrip ==
    \/ handleGenerate
    \/ GenerationEnds
    \/ ClickTab
    \/ SelectGeneratedFile
    \/ FileLoads
    \/ handleUseExtractedPrompt

SpecRoundTrip ==
    InitRoundTrip /\ [][NextRoundTrip]_vars

\* The first use of an extracted record; the form still holds the values
\* the generations were started with.
UsesGenerated ==
    /\ handleUseExtractedPrompt
    /\ ~IsNull(state.extractedMetadata) /\ state.isPromptValid
    /\ log.transfers = 0

\* C40: using the metadata extracted from an image that a generation
\* produced with the form's model, prompt, promptMode and aspectRatio sets
\* model, prompt and promptMode to those values (and aspectRatio for the
\* high-quality model), clears referenceImages and switches to the generate
\* view.
C40_GenerateExtractUseRoundTrip ==
    [][UsesGenerated =>
          /\ state'.model = state.model
          /\ state'.prompt = state.prompt
          /\ state'.promptMode = state.promptMode
          /\ (state.model = HIGH_QUALITY_MODEL
                 => state'.aspectRatio = state.aspectRatio)
          /\ state'.referenceImages = <<>>
          /\ state'.view = "generate"]_vars

=============================================================================
